---- MODULE Spec2Model ----
(***************************************************************************)
(* Verification model of the devussyout pipeline core.                     *)
(*                                                                         *)
(*   Part 1: StageCoordinator (src/devussyout/src/interview/               *)
(*           stage_coordinator.py), specification Spec.                    *)
(*   Part 2: ConcurrencyManager (src/devussyout/src/concurrency.py),       *)
(*           specification SpecConc, and SpecConcFair on an event loop     *)
(*           that keeps running its units.                                 *)
(*   Part 3: DetailedDevPlanGenerator and HiveMindManager                  *)
(*           (src/devussyout/src/pipeline), specification SpecGen.         *)
(*   Part 4: ConversationHistory (src/devussyout/src/interview/            *)
(*           conversation_history.py), specifications SpecHist and         *)
(*           SpecPersist.                                                  *)
(*   Part 5: InterviewManager (src/devussyout/src/interview/               *)
(*           interview_manager.py), specification SpecMgr, and             *)
(*           SpecMgrRaise with LLM calls that raise.                       *)
(*   Part 6: the response parsers of BasicDevPlanGenerator and             *)
(*           DetailedDevPlanGenerator (src/devussyout/src/pipeline) and    *)
(*           JSONExtractor (src/devussyout/src/interview/                  *)
(*           json_extractor.py), specification SpecParse.                  *)
(*   Part 7: SessionManager (src/devussyout/src/interview/                 *)
(*           session_manager.py) as run_non_tty_mode drives it             *)
(*           (src/devussyout/interview_cli.py), specification SpecSess.    *)
(*   Part 8: DetailedDevPlanGenerator._generate_phase_details              *)
(*           (src/devussyout/src/pipeline/detailed_devplan.py),            *)
(*           specification SpecDetail.                                     *)
(*   Part 9: DesignCorrectionLoop with DesignValidator and                 *)
(*           LLMSanityReviewer (src/devussyout/src/pipeline),              *)
(*           specifications SpecLoop and SpecLoopFair.                     *)
(***************************************************************************)
EXTENDS Integers, Sequences, FiniteSets, TLC

VARIABLES
    \* StageCoordinator fields
    current_stage,      \* self._current_stage
    completed_stages,   \* self._completed_stages (a Python list)
    stage_outputs,      \* self._stage_outputs (dict; NoOutput = key absent)
    on_stage_change,    \* self._on_stage_change is set
    \* ConcurrencyManager
    limit,              \* self._limit
    sem_value,          \* free slots of self._semaphore
    ustate,             \* per unit: idle, waiting, running, returned, raised
    ukind,              \* per unit: the entry point it was submitted through
    batch,              \* the units of the gather_with_limit call, in input order
    gather_state,       \* none, pending, returned, raised
    gather_results,     \* the list gather_with_limit returned
    finish_order,       \* batch units in the order they finished
    \* DetailedDevPlanGenerator.generate and the HiveMindManager swarms
    gen_state,          \* generate: none, pending, returned, raised
    basic_phases,       \* basic_devplan.phases
    tasks,              \* unique_phases: task u generates tasks[u]
    mode,               \* the generation mode the configuration selects
    drone_count,        \* config.hivemind.drone_count
    ucall,              \* per unit: the transport call it is waiting on
    dstate,             \* per unit: per drone, inflight, raised or response
    arbiter_prompts,    \* per unit: the prompts handed to _call_arbiter
    swarm_error,        \* per unit: the drone whose failure run_swarm raised
    arbiter_responses,  \* per unit: what the transport answered the arbiter
    swarm_result,       \* per unit: the value run_swarm returned
    fallback_error,     \* per unit: the fallback call raised
    done_queue,         \* finished tasks as_completed has not yielded yet
    detailed_by_number, \* the dict of the same name, in insertion order
    gen_result,         \* the phases of the returned DevPlan
    \* ConversationHistory
    max_history,        \* self._max_history
    messages,           \* self._messages
    history_outputs,    \* self._stage_outputs (NoOutput = key absent)
    appended,           \* the messages held since the list was last cut or
                        \* replaced, and every message added after that
    file,               \* the document at the path save wrote, if any
    at_save,            \* the messages and outputs held when save ran
    \* InterviewManager
    transport,          \* the text the LLM transport returns
    requirements,       \* self._requirements
    project_name,       \* self._project_name
    design,             \* self._design is set
    handoff,            \* self._handoff
    output_dir,         \* the files of the directory self._output_dir names
    dones,              \* stages completed one after another since
                        \* construction
    scripted,           \* nothing but messages, /save and /done so far
    \* --- the parsers
    raw_response,       \* the text a parser is called with
    parsed,             \* what the parser handed back, once called
    \* --- SessionManager
    active_session,     \* the session id active_session.txt holds, if any
    session_files,      \* per session id: the snapshot <id>.json holds
    session_state,      \* self.state.session_id, if self.state is set
    session_call,       \* where the SessionManager in memory stands: none,
                        \* starting (inside create_session), loaded, ready
    created,            \* sessions created so far
    ended,              \* per session id: no, complete or quit
    reference,          \* the coordinator of one InterviewManager handed
                        \* the messages of the session without reloading
    every_message_resumed,  \* every message of the session so far came
                        \* right after a load_state
    \* DetailedDevPlanGenerator._generate_phase_details, one call
    detail_call,        \* none, primary, fallback, returned, raised
    detail_phase,       \* phase.number
    task_grouping,      \* the task_grouping argument: flat or grouped
    first_response,     \* response, once the transport has answered
    reprompts,          \* constrained-format prompts sent so far
    response2,          \* the answer to the constrained-format prompt
    detail_result,      \* the PhaseDetailResult returned
    \* DesignCorrectionLoop.run, one call
    current_design,     \* current_design
    complexity_profile, \* the complexity_profile argument
    iteration,          \* rounds of the for loop begun
    all_changes,        \* all_changes
    correction_result   \* the DesignCorrectionResult returned

coordVars == <<current_stage, completed_stages, stage_outputs, on_stage_change>>

concVars == <<limit, sem_value, ustate, ukind, batch, gather_state,
              gather_results, finish_order>>

genVars == <<gen_state, basic_phases, tasks, mode, drone_count, ucall, dstate,
             arbiter_prompts, swarm_error, arbiter_responses, swarm_result,
             fallback_error, done_queue, detailed_by_number, gen_result>>

histVars == <<max_history, messages, history_outputs, appended, file, at_save>>

mgrVars == <<transport, requirements, project_name, design, handoff,
             output_dir, dones, scripted>>

parseVars == <<raw_response, parsed>>

sessVars == <<active_session, session_files, session_state, session_call,
              created, ended, reference, every_message_resumed>>

detailVars == <<detail_call, detail_phase, task_grouping, first_response,
                reprompts, response2, detail_result>>

loopVars == <<current_design, complexity_profile, iteration, all_changes,
              correction_result>>

vars == <<coordVars, concVars, genVars, histVars, mgrVars, parseVars,
          sessVars, detailVars, loopVars>>

\* ------------------------------------------------------------------ Stage
INTERVIEW == "interview"
DESIGN == "design"
DEVPLAN == "devplan"
DETAILED == "detailed"
HANDOFF == "handoff"

\* Stage.next_stage / reset_from_stage: the canonical order list
order == <<INTERVIEW, DESIGN, DEVPLAN, DETAILED, HANDOFF>>

Stage == {order[i] : i \in 1..Len(order)}

None == "None"

\* order.index(stage), 1-based
indexOf == [s \in Stage |-> CHOOSE i \in 1..Len(order) : order[i] = s]
index(stage) == indexOf[stage]

\* Stage.next_stage
next_stage(stage) ==
    IF index(stage) < Len(order) THEN order[index(stage) + 1] ELSE None

\* Stage.prev_stage
prev_stage(stage) ==
    IF index(stage) > 1 THEN order[index(stage) - 1] ELSE None

\* Stage.display_name
display_name(stage) ==
    CASE stage = INTERVIEW -> "Requirements Gathering"
      [] stage = DESIGN    -> "Project Design"
      [] stage = DEVPLAN   -> "Development Plan"
      [] stage = DETAILED  -> "Detailed Steps"
      [] stage = HANDOFF   -> "Handoff Prompt"

\* StageCoordinator._init_stage_configs: StageConfig.requires_previous
requires_previous(stage) ==
    CASE stage = INTERVIEW -> <<>>
      [] stage = DESIGN    -> <<INTERVIEW>>
      [] stage = DEVPLAN   -> <<DESIGN>>
      [] stage = DETAILED  -> <<DEVPLAN>>
      [] stage = HANDOFF   -> <<DETAILED>>

\* ------------------------------------------------------------ list helpers
Range(s) == {s[i] : i \in 1..Len(s)}

\* x in list
In(x, s) == x \in Range(s)

\* list.remove(x): drops the first occurrence of x
Remove(s, x) ==
    IF ~In(x, s) THEN s
    ELSE LET k == CHOOSE i \in 1..Len(s) :
                      s[i] = x /\ \A j \in 1..(i - 1) : s[j] # x
         IN  SubSeq(s, 1, k - 1) \o SubSeq(s, k + 1, Len(s))

\* ---------------------------------------------------------------- outputs
\* The outputs a caller may store. The coordinator never looks inside an
\* output (it only tests `output is not None`), so one opaque value stands
\* for them all.
Outputs == {"output"}

\* as an argument Python's None, in the dict an absent key (dict.get gives
\* None)
NoOutput == None

\* -------------------------------------------------------- StageCoordinator
\* the coordinator object
Self == [current_stage |-> current_stage,
         completed_stages |-> completed_stages,
         stage_outputs |-> stage_outputs,
         on_stage_change |-> on_stage_change]

\* the outcome of a call: the object after it, the value returned and the
\* listener invocations made, in order
Outcome(self, ret, notified) == [self |-> self, ret |-> ret, notified |-> notified]

\* StageCoordinator.__init__
CoordInit ==
    /\ current_stage = INTERVIEW
    /\ completed_stages = <<>>
    /\ stage_outputs = [s \in Stage |-> NoOutput]
    /\ on_stage_change = FALSE

\* mutant of Notify: the listener gets (new, old)
Notify_swapped(self, old, new) ==
    IF self.on_stage_change THEN <<<<new, old>>>> ELSE <<>>

\* the listener invocations of a stage change: `if self._on_stage_change:`
Notify(self, old, new) ==
    IF self.on_stage_change THEN <<<<old, new>>>> ELSE <<>>

\* mutant of requirements_met: every earlier stage of the order is required
requirements_met_all_earlier(stage, completed) ==
    \A i \in 1..(index(stage) - 1) : In(order[i], completed)

\* requirement loop of advance_stage / go_to_stage: TRUE when no required
\* stage is missing from the completed list
requirements_met(stage, completed) ==
    \A i \in 1..Len(requires_previous(stage)) :
        In(requires_previous(stage)[i], completed)

\* StageCoordinator.set_on_stage_change
set_on_stage_change_call(self) ==
    Outcome([self EXCEPT !.on_stage_change = TRUE], None, <<>>)

\* StageCoordinator.set_stage_output
set_stage_output(outputs, stage, output) == [outputs EXCEPT ![stage] = output]

\* mutant of mark_complete_list: appends without the membership test
mark_complete_list_always_append(completed, stage) == Append(completed, stage)

\* StageCoordinator.mark_complete: the completed list after it
mark_complete_list(completed, stage) ==
    IF ~In(stage, completed) THEN Append(completed, stage) ELSE completed

\* StageCoordinator.mark_complete: the output dict after it
mark_complete_outputs(outputs, stage, output) ==
    IF output # NoOutput THEN set_stage_output(outputs, stage, output)
    ELSE outputs

\* StageCoordinator.mark_complete(stage, output); stage = None is the default
\* argument, the current stage
mark_complete_call(self, stage, output) ==
    LET s == IF stage = None THEN self.current_stage ELSE stage IN
    Outcome([self EXCEPT
                !.completed_stages = mark_complete_list(@, s),
                !.stage_outputs = mark_complete_outputs(@, s, output)],
            None, <<>>)

\* mutant of advance_stage_returns: neither completion nor requirements checked
advance_stage_returns_unchecked(self) == next_stage(self.current_stage)

\* StageCoordinator.advance_stage: the value returned
advance_stage_returns(self) ==
    IF ~In(self.current_stage, self.completed_stages) THEN None
    ELSE IF next_stage(self.current_stage) = None THEN None
    ELSE IF ~requirements_met(next_stage(self.current_stage),
                              self.completed_stages)
         THEN None
    ELSE next_stage(self.current_stage)

\* StageCoordinator.advance_stage
advance_stage_call(self) ==
    LET r == advance_stage_returns(self) IN
    IF r = None THEN Outcome(self, None, <<>>)
    ELSE Outcome([self EXCEPT !.current_stage = r], r,
                 Notify(self, self.current_stage, r))

\* StageCoordinator.go_to_stage
go_to_stage_call(self, stage) ==
    IF ~requirements_met(stage, self.completed_stages)
    THEN Outcome(self, "False", <<>>)
    ELSE Outcome([self EXCEPT !.current_stage = stage], "True",
                 Notify(self, self.current_stage, stage))

\* StageCoordinator.reset
reset_call(self) ==
    Outcome([self EXCEPT !.current_stage = INTERVIEW,
                         !.completed_stages = <<>>,
                         !.stage_outputs = [s \in Stage |-> NoOutput]],
            None, <<>>)

\* mutant of stages_to_clear: order[idx + 1:]
stages_to_clear_after(stage) == SubSeq(order, index(stage) + 1, Len(order))

\* reset_from_stage: order[idx:]
stages_to_clear(stage) == SubSeq(order, index(stage), Len(order))

\* mutant of clear_completed: the completed list is left as it is
clear_completed_skipped(completed, clear, i) == completed

\* reset_from_stage, the loop from stages_to_clear[i] on: the completed list
RECURSIVE clear_completed(_, _, _)
clear_completed(completed, clear, i) ==
    IF i > Len(clear) THEN completed
    ELSE clear_completed(Remove(completed, clear[i]), clear, i + 1)

\* reset_from_stage, the loop over stages_to_clear: the output dict
clear_outputs(outputs, clear) ==
    [s \in Stage |-> IF In(s, clear) THEN NoOutput ELSE outputs[s]]

\* StageCoordinator.reset_from_stage
reset_from_stage_call(self, stage) ==
    Outcome([self EXCEPT
                !.completed_stages = clear_completed(@, stages_to_clear(stage), 1),
                !.stage_outputs = clear_outputs(@, stages_to_clear(stage)),
                !.current_stage = stage],
            None, <<>>)

\* f"{req_stage.value}_output"
output_key(stage) ==
    CASE stage = INTERVIEW -> "interview_output"
      [] stage = DESIGN    -> "design_output"
      [] stage = DEVPLAN   -> "devplan_output"
      [] stage = DETAILED  -> "detailed_output"
      [] stage = HANDOFF   -> "handoff_output"

\* a context dict: "stage", "stage_name" and one "<stage>_output" key per
\* stage of `added`, carrying that stage's stored output
context(s, added, outputs) ==
    [k \in {"stage", "stage_name"} \cup {output_key(r) : r \in added} |->
        IF k = "stage" THEN s
        ELSE IF k = "stage_name" THEN display_name(s)
        ELSE outputs[CHOOSE r \in added : output_key(r) = k]]

\* mutant of get_context_for_stage: carries every stored output
get_context_for_stage_all_outputs(self, stage) ==
    LET s == IF stage = None THEN self.current_stage ELSE stage IN
    context(s, {r \in Stage : self.stage_outputs[r] # NoOutput},
            self.stage_outputs)

\* StageCoordinator.get_context_for_stage: the returned dict, as a function
\* from its keys; stage = None is the default argument, the current stage
get_context_for_stage(self, stage) ==
    LET s == IF stage = None THEN self.current_stage ELSE stage
        req == requires_previous(s)
    IN  context(s, {req[i] : i \in {j \in 1..Len(req) :
                                       self.stage_outputs[req[j]] # NoOutput}},
                self.stage_outputs)

\* a call is made: the object becomes the outcome's
Called(outcome) ==
    /\ current_stage' = outcome.self.current_stage
    /\ completed_stages' = outcome.self.completed_stages
    /\ stage_outputs' = outcome.self.stage_outputs
    /\ on_stage_change' = outcome.self.on_stage_change
    /\ UNCHANGED <<concVars, genVars, histVars, mgrVars, parseVars, sessVars, detailVars, loopVars>>

set_on_stage_change == Called(set_on_stage_change_call(Self))

mark_complete(stage, output) == Called(mark_complete_call(Self, stage, output))

advance_stage == Called(advance_stage_call(Self))

go_to_stage(stage) == Called(go_to_stage_call(Self, stage))

reset == Called(reset_call(Self))

reset_from_stage(stage) == Called(reset_from_stage_call(Self, stage))

CoordNext ==
    \/ set_on_stage_change
    \/ \E s \in Stage \cup {None}, o \in Outputs \cup {NoOutput} :
           mark_complete(s, o)
    \/ advance_stage
    \/ \E s \in Stage : go_to_stage(s)
    \/ reset
    \/ \E s \in Stage : reset_from_stage(s)

\* ------------------------------------------------------ ConcurrencyManager
\* bounds of the concurrency model
MaxUnits == 3
MaxLimit == 2

\* default of ConcurrencyManager.__init__ when nothing is configured
DefaultLimit == 5

Units == 1..MaxUnits

\* ConcurrencyManager.__init__: self._limit. given: max_concurrent is not
\* None; has_attr: config carries max_concurrent_requests
configured_limit(given, max_concurrent, has_attr, max_concurrent_requests) ==
    IF given THEN max_concurrent
    ELSE IF ~has_attr THEN DefaultLimit
    ELSE IF max_concurrent_requests = 0 THEN DefaultLimit
    ELSE max_concurrent_requests

\* mutant of initial_slots: one slot too many
initial_slots_one_more(l) == l + 1

\* asyncio.Semaphore(self._limit): the slots free at construction
initial_slots(l) == l

\* ConcurrencyManager.__init__
ConcInit ==
    /\ \E given \in BOOLEAN, mc \in 0..MaxLimit,
          has_attr \in BOOLEAN, mcr \in 0..MaxLimit :
           /\ limit = configured_limit(given, mc, has_attr, mcr)
           /\ sem_value = initial_slots(configured_limit(given, mc, has_attr, mcr))
    /\ ustate = [u \in Units |-> "idle"]
    /\ ukind = [u \in Units |-> None]
    /\ batch = <<>>
    /\ gather_state = "none"
    /\ gather_results = <<>>
    /\ finish_order = <<>>

\* the value unit u returns when it completes normally
unit_result(u) == u

running == {u \in Units : ustate[u] = "running"}

finished == {u \in Units : ustate[u] \in {"returned", "raised"}}

\* ConcurrencyManager.run_with_limit(coro): the caller reaches
\* `async with self._semaphore`
run_with_limit(u) ==
    /\ ustate[u] = "idle"
    /\ ustate' = [ustate EXCEPT ![u] = "waiting"]
    /\ ukind' = [ukind EXCEPT ![u] = "run_with_limit"]
    /\ UNCHANGED <<limit, sem_value, batch, gather_state, gather_results,
                   finish_order, coordVars, genVars, histVars, mgrVars, parseVars, sessVars, detailVars, loopVars>>

\* ConcurrencyManager.acquire(): the caller enters the context manager
acquire(u) ==
    /\ ustate[u] = "idle"
    /\ ustate' = [ustate EXCEPT ![u] = "waiting"]
    /\ ukind' = [ukind EXCEPT ![u] = "acquire"]
    /\ UNCHANGED <<limit, sem_value, batch, gather_state, gather_results,
                   finish_order, coordVars, genVars, histVars, mgrVars, parseVars, sessVars, detailVars, loopVars>>

\* ConcurrencyManager.gather_with_limit(coros): asyncio.gather over one _run
\* per unit, in input order; an empty batch returns [] at once
gather_with_limit(coros) ==
    /\ gather_state = "none"
    /\ \A i \in 1..Len(coros) : ustate[coros[i]] = "idle"
    /\ batch' = coros
    /\ ustate' = [u \in Units |-> IF In(u, coros) THEN "waiting" ELSE ustate[u]]
    /\ ukind' = [u \in Units |-> IF In(u, coros) THEN "gather" ELSE ukind[u]]
    /\ gather_state' = IF Len(coros) = 0 THEN "returned" ELSE "pending"
    /\ UNCHANGED <<limit, sem_value, gather_results, finish_order, coordVars, genVars, histVars, mgrVars, parseVars, sessVars, detailVars, loopVars>>

\* asyncio.Semaphore.acquire succeeding: `async with self._semaphore` entered
can_acquire == sem_value > 0

sem_acquire(u) ==
    /\ ustate[u] = "waiting"
    /\ can_acquire
    /\ sem_value' = sem_value - 1
    /\ ustate' = [ustate EXCEPT ![u] = "running"]
    /\ UNCHANGED <<limit, ukind, batch, gather_state, gather_results,
                   finish_order, coordVars, genVars, histVars, mgrVars, parseVars, sessVars, detailVars, loopVars>>

\* mutant of gathered: results in completion order
gathered_as_completed(coros, done_order) ==
    [i \in 1..Len(coros) |-> unit_result(done_order[i])]

\* the list asyncio.gather hands back: one result per child, in the order the
\* children were passed
gathered(coros, done_order) == [i \in 1..Len(coros) |-> unit_result(coros[i])]

\* asyncio.gather's bookkeeping when child u finishes (raised: with an error)
gather_child_done(u, raised) ==
    IF ukind[u] # "gather" THEN UNCHANGED <<gather_state, gather_results, finish_order>>
    ELSE /\ finish_order' = Append(finish_order, u)
         /\ IF gather_state # "pending"
            THEN UNCHANGED <<gather_state, gather_results>>
            ELSE IF raised
            THEN /\ gather_state' = "raised"
                 /\ UNCHANGED gather_results
            ELSE IF Len(finish_order) + 1 = Len(batch)
            THEN /\ gather_state' = "returned"
                 /\ gather_results' = gathered(batch, Append(finish_order, u))
            ELSE UNCHANGED <<gather_state, gather_results>>

\* mutant of release_on_raise: the slot is given back on the normal path only
release_on_raise_skipped(value) == value

\* `async with self._semaphore` left because the unit returned: the free slots
release_on_return(value) == value + 1

\* `async with self._semaphore` left because the unit raised: the free slots
release_on_raise(value) == value + 1

\* the awaited unit returns: `async with` exits and releases the slot
unit_return(u) ==
    /\ ustate[u] = "running"
    /\ ustate' = [ustate EXCEPT ![u] = "returned"]
    /\ sem_value' = release_on_return(sem_value)
    /\ gather_child_done(u, FALSE)
    /\ UNCHANGED <<limit, ukind, batch, coordVars, genVars, histVars, mgrVars, parseVars, sessVars, detailVars, loopVars>>

\* the awaited unit raises: `async with` exits and releases the slot
unit_raise(u) ==
    /\ ustate[u] = "running"
    /\ ustate' = [ustate EXCEPT ![u] = "raised"]
    /\ sem_value' = release_on_raise(sem_value)
    /\ gather_child_done(u, TRUE)
    /\ UNCHANGED <<limit, ukind, batch, coordVars, genVars, histVars, mgrVars, parseVars, sessVars, detailVars, loopVars>>

\* sequences of distinct units, the batches a caller may pass
Batches == {s \in UNION {[1..n -> Units] : n \in 0..MaxUnits} :
               \A i, j \in 1..Len(s) : i # j => s[i] # s[j]}

ConcNext ==
    \/ \E u \in Units : run_with_limit(u)
    \/ \E u \in Units : acquire(u)
    \/ \E coros \in Batches : gather_with_limit(coros)
    \/ \E u \in Units : sem_acquire(u)
    \/ \E u \in Units : unit_return(u)
    \/ \E u \in Units : unit_raise(u)

\* ---------------------------------------------------------------- responses
\* the most lines a response of the transport has
MaxLines == 4

\* the documents a response carries between fences or on a line of its own
PlanJson == "{\"phases\": [{\"title\": \"A\", \"task_groups\": [{\"steps\": [\"s\", \"t\"]}, {\"steps\": [\"u\"]}]}, {}]}"
BadPlanJson == "{\"phases\": [\"a\"]}"
OtherJson == "{\"a\": 1}"
LargerJson == "{\"bb\": 22}"
EmptyJson == "{}"
BrokenJson == "{oops}"
NullJson == "null"
NotJson == "oops"

\* the text a streaming log entry wraps when it wraps a phase header
HeaderText == "Phase 1: Title"

\* one line of a response; a fenced block, three lines, counts as one
Line(kind, n, m, text) == [kind |-> kind, n |-> n, m |-> m, text |-> text]

\* ""
Blank == Line("blank", 0, 0, "")
\* "text"
Prose == Line("prose", 0, 0, "text")
\* "# Overview"
Heading == Line("heading", 0, 0, "# Overview")
\* "- task"
Bullet == Line("bullet", 0, 0, "task")
\* "- Summary: goal"
Summary == Line("summary", 0, 0, "goal")
\* "Phase k: Title"
PhaseHeader(k) == Line("phase", k, 0, "Title")
\* "k. item"
Numbered(k) == Line("numbered", k, 0, "item")
\* "- **Group g** [estimated_files: a]"
GroupHeader(g) == Line("group", g, 0, "a")
\* "p.n: step"
StepLine(p, n) == Line("step", p, n, "step")
\* {"type":"text","part":{"type":"text","text":"..."}}
LogEntry(text) == Line("log", 0, 0, text)
\* a document on a line of its own
JsonLine(text) == Line("json", 0, 0, text)
\* ```json, the document, ``` (tagged = 1) or ```, the document, ```
Fence(tagged, text) == Line("fence", tagged, 0, text)
\* the lines of a fenced block
FenceOpen(tagged) ==
    Line("fence_open", tagged, 0, IF tagged = 1 THEN "fence json" ELSE "fence")
FenceClose == Line("fence_close", 0, 0, "fence")

\* the lines a basic devplan response is made of
DevplanLines ==
    {Blank, Prose, Heading, Bullet, Summary, PhaseHeader(1), PhaseHeader(2),
     Numbered(1), GroupHeader(1), GroupHeader(2), StepLine(1, 1),
     LogEntry(HeaderText)}
    \cup {Fence(1, text) : text \in {PlanJson, BadPlanJson, OtherJson,
                                      EmptyJson, BrokenJson}}

\* the lines a phase detail response is made of
DetailLines ==
    {Prose, Bullet, GroupHeader(1), GroupHeader(2), StepLine(1, 1),
     StepLine(1, 2), StepLine(2, 1)}

\* the lines a response that carries JSON is made of
JsonLines ==
    {Blank, Prose, JsonLine(OtherJson), JsonLine(LargerJson),
     LogEntry(OtherJson)}
    \cup {Fence(tagged, text) : tagged \in {0, 1},
                                text \in {OtherJson, EmptyJson, NullJson,
                                          NotJson}}

\* the texts of at most MaxLines lines
TextsOf(alphabet) == UNION {[1..n -> alphabet] : n \in 0..MaxLines}

DevplanResponses == TextsOf(DevplanLines)
DetailResponses == TextsOf(DetailLines)
JsonResponses == TextsOf(JsonLines)

\* str.split("\n"): a fenced block is three lines
RECURSIVE split(_)
split(text) ==
    IF text = <<>> THEN <<>>
    ELSE IF Head(text).kind = "fence"
         THEN <<FenceOpen(Head(text).n), JsonLine(Head(text).text),
                FenceClose>> \o split(Tail(text))
         ELSE <<Head(text)>> \o split(Tail(text))

\* line.strip_lines() is empty
is_blank(line) == line.kind = "blank"

\* stripped.startswith("{")
starts_with_brace(line) == line.kind \in {"log", "json"}

\* stripped.startswith("-")
starts_with_dash(line) == line.kind \in {"bullet", "summary", "group"}

\* the lines of text.strip_lines()
RECURSIVE strip_lines(_)
strip_lines(lines) ==
    IF lines = <<>> THEN <<>>
    ELSE IF is_blank(Head(lines)) THEN strip_lines(Tail(lines))
    ELSE IF is_blank(lines[Len(lines)])
         THEN strip_lines(SubSeq(lines, 1, Len(lines) - 1))
         ELSE lines

\* the line a log entry's text is
entry_text(line) ==
    IF line.text = HeaderText THEN PhaseHeader(1) ELSE JsonLine(line.text)

\* the texts of the log entries among the lines, one after another
RECURSIVE extracted_parts(_)
extracted_parts(lines) ==
    IF lines = <<>> THEN <<>>
    ELSE IF Head(lines).kind = "log"
         THEN <<entry_text(Head(lines))>> \o extracted_parts(Tail(lines))
         ELSE extracted_parts(Tail(lines))

\* BasicDevPlanGenerator._extract_text_from_log_entries
_extract_text_from_log_entries(lines) ==
    IF strip_lines(lines) = <<>> \/ ~starts_with_brace(Head(strip_lines(lines)))
    THEN lines
    ELSE IF extracted_parts(lines) # <<>> THEN extracted_parts(lines)
         ELSE lines

\* ---------------------------------------------------- BasicDevPlanGenerator
\* what a parser hands back: a value, or the exception it raised
Returned(value) == [raised |-> None, value |-> value]
Raising(exception) == [raised |-> exception, value |-> <<>>]

\* DevPlanStep(number=f"{p}.{n}", description=...): details defaults to []
DevPlanStep(p, n, description) ==
    [number |-> <<p, n>>, description |-> description, details |-> <<>>]

\* DevPlanStep(number=..., description=..., details=current_details[:])
with_details(current_step, current_details) ==
    [current_step EXCEPT !.details = current_details]

\* TaskGroup(group_number=..., steps=...)
TaskGroup(group_number, steps) ==
    [group_number |-> group_number, steps |-> steps]

\* DevPlanPhase(number=..., title=..., description=..., steps=[],
\* task_groups=...); a description of no line is None
DevPlanPhase(number, title, description, task_groups) ==
    [number |-> number, title |-> title, description |-> description,
     steps |-> <<>>, task_groups |-> task_groups]

\* the phase appended when nothing was parsed
Implementation == DevPlanPhase(1, "Implementation", <<>>, <<>>)

\* a line one of the four "Phase N: Title" patterns matches
phase_pattern_match(line) == line.kind = "phase"

\* a line one of the five phase patterns of the flat parser matches: the four
\* "Phase N: Title" patterns and the bare "N. Title" pattern, which "p.n: step"
\* matches too
flat_phase_match(line) == line.kind \in {"phase", "numbered", "step"}

\* a line one of the four phase patterns of the grouped parser matches
grouped_phase_match(line) == line.kind = "phase"

\* m.group(2).strip_lines() of a phase header; of "1.1: step" the bare pattern
\* takes "1: step"
match_title(line) ==
    IF line.kind = "step" THEN "1: step" ELSE line.text

\* the phases, with the phase being read if there is one
flat_flush(st) ==
    IF st.current_phase = <<>> THEN st.phases
    ELSE Append(st.phases,
                DevPlanPhase(st.current_phase[1].number,
                             st.current_phase[1].title,
                             st.current_description, <<>>))

\* the body of the loop of _parse_response over one line
flat_line(st, line) ==
    IF flat_phase_match(line)
    THEN [phases |-> flat_flush(st),
          current_phase |-> <<[number |-> st.next_phase_number,
                               title |-> match_title(line)]>>,
          current_items |-> <<>>,
          current_description |-> <<>>,
          next_phase_number |-> st.next_phase_number + 1]
    ELSE IF starts_with_dash(line) /\ st.current_phase # <<>>
    THEN IF line.kind = "summary"
         THEN [st EXCEPT !.current_description = <<line.text>>]
         ELSE [st EXCEPT !.current_items = Append(@, line.text)]
    ELSE IF /\ ~is_blank(line)
            /\ line.kind # "heading"
            /\ st.current_phase # <<>>
            /\ st.current_items = <<>>
            /\ st.current_description = <<>>
    THEN [st EXCEPT !.current_description = <<line.text>>]
    ELSE st

RECURSIVE flat_lines(_, _)
flat_lines(st, lines) ==
    IF lines = <<>> THEN st
    ELSE flat_lines(flat_line(st, Head(lines)), Tail(lines))

\* a plan of no phase left as it is
no_phase_added(phases) == phases

\* a plan of no phase gets the phase "Implementation"
at_least_one_phase(phases) ==
    IF phases = <<>> THEN <<Implementation>> ELSE phases

\* BasicDevPlanGenerator._parse_response
_parse_response(text) ==
    LET lines == _extract_text_from_log_entries(split(text))
        st == flat_lines([phases |-> <<>>, current_phase |-> <<>>,
                          current_items |-> <<>>,
                          current_description |-> <<>>,
                          next_phase_number |-> 1], lines)
    IN  Returned(at_least_one_phase(flat_flush(st)))

\* json.loads of a document that is a JSON object: its "phases", each a dict
\* of a title and task groups or something that is no dict
PhaseEntry(is_a_dict, title, task_groups) ==
    [is_a_dict |-> is_a_dict, title |-> title, task_groups |-> task_groups]

json_phases(text) ==
    IF text = PlanJson
    THEN <<PhaseEntry(TRUE, "A", <<<<"s", "t">>, <<"u">>>>),
           PhaseEntry(TRUE, None, <<>>)>>
    ELSE IF text = BadPlanJson
    THEN <<PhaseEntry(FALSE, None, <<>>)>>
    ELSE <<>>

\* json.loads raises on the document
json_invalid(text) == text \in {BrokenJson, NotJson}

\* bool(json.loads(text)) of a document that is a JSON object
json_truthy(text) == text \in {PlanJson, BadPlanJson, OtherJson, LargerJson}

\* the first match of ```json\s*(\{.*?\})\s*``` in the lines, if any
RECURSIVE json_block_match(_)
json_block_match(lines) ==
    IF Len(lines) < 3 THEN <<>>
    ELSE IF /\ lines[1].kind = "fence_open"
            /\ lines[1].n = 1
            /\ lines[2].kind = "json"
            /\ lines[2].text \notin {NullJson, NotJson}
            /\ lines[3].kind = "fence_close"
         THEN <<lines[2].text>>
         ELSE json_block_match(Tail(lines))

\* the steps of one task group of the JSON block: numbered from 1 in every
\* group
json_steps(p_idx, steps_raw) ==
    [s_idx \in 1..Len(steps_raw) |->
        DevPlanStep(p_idx, s_idx, steps_raw[s_idx])]

json_task_groups(p_idx, groups_raw) ==
    [g_idx \in 1..Len(groups_raw) |->
        TaskGroup(g_idx, json_steps(p_idx, groups_raw[g_idx]))]

\* the title of a phase of the JSON block
json_title(p_idx, p) ==
    IF p.title # None THEN p.title
    ELSE IF p_idx = 1 THEN "Phase 1" ELSE "Phase 2"

\* the phases of the JSON block; p.get on what is no dict raises
json_block_phases(entries) ==
    IF \E p_idx \in 1..Len(entries) : ~entries[p_idx].is_a_dict
    THEN Raising("AttributeError")
    ELSE Returned(at_least_one_phase(
             [p_idx \in 1..Len(entries) |->
                 DevPlanPhase(p_idx, json_title(p_idx, entries[p_idx]), <<>>,
                              json_task_groups(p_idx,
                                               entries[p_idx].task_groups))]))

\* a line one of the three group patterns matches
group_match(line) == line.kind = "group"

\* the steps of a group read from lines: numbered from 1 in every group
group_steps(phase_number, group_tasks) ==
    [i \in 1..Len(group_tasks) |->
        DevPlanStep(phase_number, i, group_tasks[i])]

\* the groups of the phase being read, with the group being read if any
grouped_flush_group(st) ==
    IF st.current_group = <<>> THEN st.current_phase_groups
    ELSE Append(st.current_phase_groups,
                TaskGroup(st.current_group[1],
                          group_steps(IF st.current_phase = <<>> THEN 1
                                      ELSE st.current_phase[1].number,
                                      st.current_group_tasks)))

\* the phases, with the phase being read if there is one
grouped_flush(st) ==
    IF st.current_phase = <<>> THEN st.phases
    ELSE Append(st.phases,
                DevPlanPhase(st.current_phase[1].number,
                             st.current_phase[1].title,
                             st.current_description,
                             grouped_flush_group(st)))

\* the body of the loop of _parse_grouped_response over one line
grouped_line(st, line) ==
    IF grouped_phase_match(line)
    THEN [phases |-> grouped_flush(st),
          current_phase |-> <<[number |-> st.next_phase_number,
                               title |-> match_title(line)]>>,
          current_phase_groups |-> <<>>,
          current_group |-> <<>>,
          current_group_tasks |-> <<>>,
          current_description |-> <<>>,
          next_phase_number |-> st.next_phase_number + 1]
    ELSE IF group_match(line)
    THEN IF st.current_phase = <<>>
         THEN [st EXCEPT
                  !.current_phase = <<[number |-> st.next_phase_number,
                                       title |-> "Phase 1"]>>,
                  !.next_phase_number = @ + 1,
                  !.current_phase_groups = <<>>,
                  !.current_group = <<line.n>>,
                  !.current_group_tasks = <<>>]
         ELSE [st EXCEPT
                  !.current_phase_groups = grouped_flush_group(st),
                  !.current_group = <<line.n>>,
                  !.current_group_tasks = <<>>]
    ELSE IF starts_with_dash(line) /\ st.current_group # <<>>
    THEN [st EXCEPT !.current_group_tasks = Append(@, line.text)]
    ELSE IF /\ ~is_blank(line)
            /\ st.current_phase # <<>>
            /\ st.current_group = <<>>
            /\ line.kind # "heading"
    THEN [st EXCEPT !.current_description = Append(@, line.text)]
    ELSE st

RECURSIVE grouped_lines(_, _)
grouped_lines(st, lines) ==
    IF lines = <<>> THEN st
    ELSE grouped_lines(grouped_line(st, Head(lines)), Tail(lines))

\* BasicDevPlanGenerator._parse_grouped_response
_parse_grouped_response(text) ==
    LET lines == _extract_text_from_log_entries(split(text))
        block == json_block_match(lines)
        st == grouped_lines([phases |-> <<>>, current_phase |-> <<>>,
                             current_phase_groups |-> <<>>,
                             current_group |-> <<>>,
                             current_group_tasks |-> <<>>,
                             current_description |-> <<>>,
                             next_phase_number |-> 1], lines)
    IN  IF /\ block # <<>>
           /\ ~json_invalid(block[1])
           /\ json_truthy(block[1])
        THEN json_block_phases(json_phases(block[1]))
        ELSE Returned(at_least_one_phase(grouped_flush(st)))

\* ------------------------------------------- DetailedDevPlanGenerator parsers
\* a line the step pattern of the phase matches: "p.n: step" of that phase
step_match(line, phase_number) ==
    line.kind = "step" /\ line.n = phase_number

\* the steps, with the step being read if there is one
steps_flush(st) ==
    IF st.current_step = <<>> THEN st.steps
    ELSE Append(st.steps, with_details(st.current_step[1],
                                       st.current_details))

\* the body of the loop of _parse_steps over one line: the step takes the
\* number the line gives it
step_line(st, line, phase_number) ==
    IF step_match(line, phase_number)
    THEN [steps |-> steps_flush(st),
          current_step |-> <<DevPlanStep(phase_number, line.m, line.text)>>,
          current_details |-> <<>>]
    ELSE IF starts_with_dash(line) /\ st.current_step # <<>>
    THEN [st EXCEPT !.current_details = Append(@, line.text)]
    ELSE st

RECURSIVE step_lines(_, _, _)
step_lines(st, lines, phase_number) ==
    IF lines = <<>> THEN st
    ELSE step_lines(step_line(st, Head(lines), phase_number), Tail(lines),
                    phase_number)

\* the step of a phase whose response names no step
placeholder_step(phase_number) ==
    DevPlanStep(phase_number, 1, "Implement phase requirements")

\* DetailedDevPlanGenerator._parse_steps
_parse_steps(text, phase_number) ==
    LET st == step_lines([steps |-> <<>>, current_step |-> <<>>,
                          current_details |-> <<>>], split(text),
                         phase_number)
    IN  IF steps_flush(st) = <<>> THEN <<placeholder_step(phase_number)>>
        ELSE steps_flush(st)

\* the steps of the group being read, with the step being read if any
group_steps_flush(st) ==
    IF st.current_step = <<>> THEN st.current_steps
    ELSE Append(st.current_steps, with_details(st.current_step[1],
                                               st.current_details))

\* the groups, with the group being read if it has a step
groups_flush(st) ==
    IF st.current_group # <<>> /\ group_steps_flush(st) # <<>>
    THEN Append(st.groups, TaskGroup(st.current_group[1],
                                     group_steps_flush(st)))
    ELSE st.groups

\* the body of the loop of _parse_task_groups over one line
task_group_line(st, line, phase_number) ==
    IF group_match(line)
    THEN [groups |-> groups_flush(st),
          current_group |-> <<line.n>>,
          current_steps |-> <<>>,
          current_step |-> <<>>,
          current_details |-> <<>>]
    ELSE IF step_match(line, phase_number)
    THEN [st EXCEPT
             !.current_steps = group_steps_flush(st),
             !.current_step = <<DevPlanStep(phase_number, line.m, line.text)>>,
             !.current_details = <<>>]
    ELSE IF starts_with_dash(line) /\ st.current_step # <<>>
    THEN [st EXCEPT !.current_details = Append(@, line.text)]
    ELSE st

RECURSIVE task_group_lines(_, _, _)
task_group_lines(st, lines, phase_number) ==
    IF lines = <<>> THEN st
    ELSE task_group_lines(task_group_line(st, Head(lines), phase_number),
                          Tail(lines), phase_number)

\* DetailedDevPlanGenerator._parse_task_groups
_parse_task_groups(text, phase_number) ==
    LET st == task_group_lines([groups |-> <<>>, current_group |-> <<>>,
                                current_steps |-> <<>>,
                                current_step |-> <<>>,
                                current_details |-> <<>>], split(text),
                               phase_number)
    IN  IF groups_flush(st) = <<>>
        THEN <<TaskGroup(1, _parse_steps(text, phase_number))>>
        ELSE groups_flush(st)

\* ------------------------------------------------ DetailedDevPlanGenerator
MaxPhases == 3
MaxNumber == 2
MaxDrones == 2

PhaseNumbers == 1..MaxNumber

\* a DevPlanPhase: its number and its title
Phase(number, title) == [number |-> number, title |-> title]

\* basic_devplan.phases as a caller may pass it: any numbers in any order,
\* repeated or not; the title tells phases carrying the same number apart
Plans ==
    UNION {{[i \in 1..n |-> Phase(numbers[i], i)] :
               numbers \in [1..n -> PhaseNumbers]} : n \in 0..MaxPhases}

\* what the transport returns: text with parsable steps, text without, or
\* whitespace
Responses == {"steps", "prose", " "}

\* response.strip()
strip(response) == IF response = " " THEN "" ELSE response

\* the lines of what the transport returns to the prompt of a phase
response_lines(response, number) ==
    IF response = "steps" THEN <<StepLine(number, 1)>>
    ELSE IF response = "prose" THEN <<Prose>>
    ELSE <<Blank>>

\* `not response.strip() or not steps`, steps being what _parse_steps found
\* in the response
needs_fallback(response, number) ==
    \/ strip(response) = ""
    \/ _parse_steps(response_lines(response, number), number) = <<>>

\* the de-duplication loop of generate, every phase kept
unique_phases_all(phases) == phases

\* the de-duplication loop of generate: seen holds the keys of seen_numbers
RECURSIVE unique_phases_from(_, _, _, _)
unique_phases_from(phases, i, seen, unique) ==
    IF i > Len(phases) THEN unique
    ELSE IF phases[i].number \in seen
         THEN unique_phases_from(phases, i + 1, seen, unique)
         ELSE unique_phases_from(phases, i + 1,
                                 seen \cup {phases[i].number},
                                 Append(unique, phases[i]))

\* the de-duplication loop of generate, a later phase replacing the kept one
unique_phases_last_wins(phases) ==
    LET kept == unique_phases_from(phases, 1, {}, <<>>) IN
    [u \in 1..Len(kept) |->
        phases[CHOOSE i \in 1..Len(phases) :
                  /\ phases[i].number = kept[u].number
                  /\ \A j \in (i + 1)..Len(phases) :
                         phases[j].number # kept[u].number]]

unique_phases(phases) == unique_phases_from(phases, 1, {}, <<>>)

\* the branch _generate_phase_details takes
generation_mode(enabled, streaming_enabled, streaming_handler) ==
    IF enabled THEN "hivemind"
    ELSE IF streaming_enabled /\ streaming_handler THEN "streaming"
    ELSE "direct"

\* the phase a finished unit returns inside its PhaseDetailResult
phase_model(phase) == Phase(phase.number, phase.title)

\* d[phase.number] = phase on a dict kept in insertion order
dict_set(d, phase) ==
    IF \E j \in 1..Len(d) : d[j].number = phase.number
    THEN [j \in 1..Len(d) |->
             IF d[j].number = phase.number THEN phase ELSE d[j]]
    ELSE Append(d, phase)

\* d[number]
dict_get(d, number) == d[CHOOSE j \in 1..Len(d) : d[j].number = number]

\* the final list taken from the dict in insertion (completion) order
detailed_phases_as_completed(unique, by_number) == by_number

\* detailed_phases = [detailed_by_number[p.number] for p in unique_phases]
detailed_phases(unique, by_number) ==
    [i \in 1..Len(unique) |-> dict_get(by_number, unique[i].number)]

\* ids counted from zero
_format_for_arbiter_zero_based(drone_responses) ==
    [p \in 1..Len(drone_responses) |->
        [id |-> p - 1, content |-> drone_responses[p]]]

\* the drones entry of the arbiter context: position p holds enumerate
\* index i = p - 1
_format_for_arbiter(drone_responses) ==
    [p \in 1..Len(drone_responses) |->
        [id |-> (p - 1) + 1, content |-> drone_responses[p]]]

\* asyncio.gather of the drones: their responses in dispatch order
_execute_parallel(drones) == [p \in 1..Len(drones) |-> drones[p]]

GenInit ==
    /\ gen_state = "none"
    /\ basic_phases = <<>>
    /\ tasks = <<>>
    /\ mode = None
    /\ drone_count = 0
    /\ ucall = [u \in Units |-> "none"]
    /\ dstate = [u \in Units |-> <<>>]
    /\ arbiter_prompts = [u \in Units |-> <<>>]
    /\ swarm_error = [u \in Units |-> <<>>]
    /\ arbiter_responses = [u \in Units |-> <<>>]
    /\ swarm_result = [u \in Units |-> <<>>]
    /\ fallback_error = [u \in Units |-> FALSE]
    /\ done_queue = <<>>
    /\ detailed_by_number = <<>>
    /\ gen_result = <<>>

\* the phases generate built tasks for
Launched == 1..Len(tasks)

\* LLM transport calls in flight inside unit u
unit_calls(u) ==
    (IF ucall[u] \in {"primary", "arbiter", "fallback"} THEN 1 ELSE 0)
    + Cardinality({p \in 1..Len(dstate[u]) : dstate[u][p] = "inflight"})

RECURSIVE sum_calls(_)
sum_calls(units) ==
    IF units = {} THEN 0
    ELSE LET u == CHOOSE x \in units : TRUE IN
         unit_calls(u) + sum_calls(units \ {u})

\* LLM transport calls in flight
calls_in_flight == sum_calls(Units)

\* generate: de-duplicate, create one task per unique phase, then wait in
\* asyncio.as_completed; with no phase the loop body never runs
generate(phases, m, k) ==
    LET unique == unique_phases(phases) IN
    /\ gen_state = "none"
    /\ Len(unique) <= MaxUnits
    /\ basic_phases' = phases
    /\ tasks' = unique
    /\ mode' = m
    /\ drone_count' = k
    /\ ustate' = [u \in Units |->
                     IF u <= Len(unique) THEN "waiting" ELSE ustate[u]]
    /\ ukind' = [u \in Units |->
                    IF u <= Len(unique) THEN "run_with_limit" ELSE ukind[u]]
    /\ gen_state' = IF unique = <<>> THEN "returned" ELSE "pending"
    /\ gen_result' = IF unique = <<>> THEN detailed_phases(unique, <<>>)
                      ELSE gen_result
    /\ UNCHANGED <<limit, sem_value, batch, gather_state, gather_results,
                   finish_order, ucall, dstate, arbiter_prompts, swarm_error,
                   arbiter_responses, swarm_result, fallback_error, done_queue,
                   detailed_by_number, coordVars, histVars, mgrVars, parseVars, sessVars, detailVars, loopVars>>

\* `async with self._semaphore` lets the caller in with no slot taken
take_slot_skipped(value) == value

\* `async with self._semaphore` takes a slot
take_slot(value) == value - 1

\* task u enters run_with_limit's `async with` and _generate_phase_details
\* runs to its first transport call; run_swarm dispatches all the drones
phase_start(u) ==
    /\ u \in Launched
    /\ ustate[u] = "waiting"
    /\ can_acquire
    /\ sem_value' = take_slot(sem_value)
    /\ ustate' = [ustate EXCEPT ![u] = "running"]
    /\ IF mode # "hivemind"
       THEN /\ ucall' = [ucall EXCEPT ![u] = "primary"]
            /\ UNCHANGED <<dstate, arbiter_prompts>>
       ELSE IF drone_count > 0
       THEN /\ ucall' = [ucall EXCEPT ![u] = "drones"]
            /\ dstate' = [dstate EXCEPT
                             ![u] = [p \in 1..drone_count |-> "inflight"]]
            /\ UNCHANGED arbiter_prompts
       ELSE /\ ucall' = [ucall EXCEPT ![u] = "arbiter"]
            /\ arbiter_prompts' =
                   [arbiter_prompts EXCEPT
                       ![u] = <<_format_for_arbiter(_execute_parallel(<<>>))>>]
            /\ UNCHANGED dstate
    /\ UNCHANGED <<limit, ukind, batch, gather_state, gather_results,
                   finish_order, gen_state, basic_phases, tasks, mode,
                   drone_count, swarm_error, arbiter_responses, swarm_result,
                   fallback_error,
                   done_queue, detailed_by_number, gen_result, coordVars,
                   histVars, mgrVars, parseVars, sessVars, detailVars, loopVars>>

\* _generate_phase_details returns: the slot is released and the finished
\* task is queued for as_completed
phase_returned(u) ==
    /\ ustate' = [ustate EXCEPT ![u] = "returned"]
    /\ ucall' = [ucall EXCEPT ![u] = "done"]
    /\ sem_value' = release_on_return(sem_value)
    /\ done_queue' = Append(done_queue, u)

\* _generate_phase_details raises: the slot is released and the failed task
\* is queued for as_completed
phase_raised(u) ==
    /\ ustate' = [ustate EXCEPT ![u] = "raised"]
    /\ ucall' = [ucall EXCEPT ![u] = "raised"]
    /\ sem_value' = release_on_raise(sem_value)
    /\ done_queue' = Append(done_queue, u)

\* the response of the generation branch is parsed: the unit is finished, or
\* the fallback call goes out
response_received(u, response) ==
    IF needs_fallback(response, tasks[u].number)
    THEN /\ ucall' = [ucall EXCEPT ![u] = "fallback"]
         /\ UNCHANGED <<ustate, sem_value, done_queue>>
    ELSE phase_returned(u)

\* what an action on unit u's transport call leaves alone
GenFrame ==
    UNCHANGED <<limit, ukind, batch, gather_state, gather_results,
                finish_order, gen_state, basic_phases, tasks, mode,
                drone_count, detailed_by_number, gen_result, coordVars, histVars, mgrVars, parseVars, sessVars, detailVars, loopVars>>

\* generate_completion / generate_completion_streaming returns
completion_return(u, response) ==
    /\ ucall[u] = "primary"
    /\ response_received(u, response)
    /\ GenFrame
    /\ UNCHANGED <<dstate, arbiter_prompts, swarm_error, arbiter_responses,
                   swarm_result, fallback_error>>

\* generate_completion / generate_completion_streaming raises
completion_raise(u) ==
    /\ ucall[u] = "primary"
    /\ phase_raised(u)
    /\ GenFrame
    /\ UNCHANGED <<dstate, arbiter_prompts, swarm_error, arbiter_responses,
                   swarm_result, fallback_error>>

\* the fallback call ends inside `try: ... except Exception: pass`
on_fallback_end(u, raised) == phase_returned(u)

\* the fallback call returns or raises
fallback_end(u, raised) ==
    /\ ucall[u] = "fallback"
    /\ fallback_error' = [fallback_error EXCEPT ![u] = raised]
    /\ on_fallback_end(u, raised)
    /\ GenFrame
    /\ UNCHANGED <<dstate, arbiter_prompts, swarm_error, arbiter_responses,
                   swarm_result>>

\* the drones a swarm of k dispatches: range(count)
Drones(k) == 0..(k - 1)

\* asyncio.gather holding on to a child's exception
on_drone_failure_kept(call) == call

\* asyncio.gather passes the first child exception on to run_swarm, which
\* is awaiting it in _execute_parallel
on_drone_failure(call) == IF call = "drones" THEN "raised" ELSE call

\* drone i's call returns; when it is the last one gather returns the list,
\* the arbiter prompt is formatted and the arbiter call goes out
drone_return(u, i, response) ==
    LET drones == [dstate[u] EXCEPT ![i + 1] = response] IN
    /\ i + 1 \in 1..Len(dstate[u])
    /\ dstate[u][i + 1] = "inflight"
    /\ dstate' = [dstate EXCEPT ![u] = drones]
    /\ IF ucall[u] = "drones" /\ \A p \in 1..Len(drones) : drones[p] \in Responses
       THEN /\ ucall' = [ucall EXCEPT ![u] = "arbiter"]
            /\ arbiter_prompts' =
                   [arbiter_prompts EXCEPT
                       ![u] = <<_format_for_arbiter(_execute_parallel(drones))>>]
       ELSE UNCHANGED <<ucall, arbiter_prompts>>
    /\ GenFrame
    /\ UNCHANGED <<ustate, sem_value, done_queue, swarm_error, arbiter_responses,
                   swarm_result, fallback_error>>

\* drone i's call raises; the first failure of a swarm ends run_swarm and the
\* unit with it, the other drones' calls stay in flight
drone_raise(u, i) ==
    /\ i + 1 \in 1..Len(dstate[u])
    /\ dstate[u][i + 1] = "inflight"
    /\ dstate' = [dstate EXCEPT ![u][i + 1] = "raised"]
    /\ IF on_drone_failure(ucall[u]) = "raised"
       THEN /\ phase_raised(u)
            /\ swarm_error' = [swarm_error EXCEPT ![u] = <<i>>]
       ELSE UNCHANGED <<ustate, ucall, sem_value, done_queue, swarm_error>>
    /\ GenFrame
    /\ UNCHANGED <<arbiter_prompts, arbiter_responses, swarm_result,
                   fallback_error>>

\* run_swarm returning an empty text
run_swarm_returns_nothing(arbiter_response) == ""

\* run_swarm: `return await self._call_arbiter(...)`
run_swarm_returns(arbiter_response) == arbiter_response

\* _call_arbiter returns: run_swarm returns the arbiter's text
arbiter_return(u, response) ==
    /\ ucall[u] = "arbiter"
    /\ arbiter_responses' = [arbiter_responses EXCEPT ![u] = <<response>>]
    /\ swarm_result' =
           [swarm_result EXCEPT ![u] = <<run_swarm_returns(response)>>]
    /\ response_received(u, response)
    /\ GenFrame
    /\ UNCHANGED <<dstate, arbiter_prompts, swarm_error, fallback_error>>

\* _call_arbiter raises
arbiter_raise(u) ==
    /\ ucall[u] = "arbiter"
    /\ phase_raised(u)
    /\ GenFrame
    /\ UNCHANGED <<dstate, arbiter_prompts, swarm_error, arbiter_responses,
                   swarm_result, fallback_error>>

\* one turn of `for fut in asyncio.as_completed(tasks)`: the next finished
\* task is awaited; its exception leaves generate, its result is stored, and
\* after the last one the plan is assembled and returned
collect ==
    /\ gen_state = "pending"
    /\ done_queue # <<>>
    /\ done_queue' = Tail(done_queue)
    /\ LET u == Head(done_queue)
           by_number == dict_set(detailed_by_number, phase_model(tasks[u]))
       IN IF ustate[u] = "raised"
          THEN /\ gen_state' = "raised"
               /\ UNCHANGED <<detailed_by_number, gen_result>>
          ELSE /\ detailed_by_number' = by_number
               /\ IF /\ Tail(done_queue) = <<>>
                     /\ \A v \in Launched : ustate[v] = "returned"
                  THEN /\ gen_state' = "returned"
                       /\ gen_result' = detailed_phases(tasks, by_number)
                  ELSE UNCHANGED <<gen_state, gen_result>>
    /\ UNCHANGED <<concVars, basic_phases, tasks, mode, drone_count, ucall,
                   dstate, arbiter_prompts, swarm_error, arbiter_responses,
                   swarm_result, fallback_error, coordVars, histVars, mgrVars, parseVars, sessVars, detailVars, loopVars>>

\* the configurations and plans generate is called with
GenNext ==
    \/ \E phases \in Plans, enabled, streaming_enabled, handler \in BOOLEAN,
          k \in 0..MaxDrones :
          generate(phases,
                   generation_mode(enabled, streaming_enabled, handler), k)
    \/ \E u \in Units : phase_start(u)
    \/ \E u \in Units, response \in Responses : completion_return(u, response)
    \/ \E u \in Units : completion_raise(u)
    \/ \E u \in Units, raised \in BOOLEAN : fallback_end(u, raised)
    \/ \E u \in Units, i \in Drones(MaxDrones), response \in Responses :
          drone_return(u, i, response)
    \/ \E u \in Units, i \in Drones(MaxDrones) : drone_raise(u, i)
    \/ \E u \in Units, response \in Responses : arbiter_return(u, response)
    \/ \E u \in Units : arbiter_raise(u)
    \/ collect

\* ---------------------------------------------------- ConversationHistory
MaxHistory == 2
MaxAppends == 3

\* the default of max_history
DefaultMaxHistory == 100

SYSTEM == "MessageRole.SYSTEM"
USER == "MessageRole.USER"
ASSISTANT == "MessageRole.ASSISTANT"

MessageRole == {SYSTEM, USER, ASSISTANT}

\* role.value
role_value(role) ==
    CASE role = SYSTEM -> "system"
      [] role = USER -> "user"
      [] role = ASSISTANT -> "assistant"

\* MessageRole(data["role"])
role_of_value(value) == CHOOSE role \in MessageRole : role_value(role) = value

\* a Message; the timestamp, which no operation reads, is left out
Message(role, content, stage, metadata) ==
    [role |-> role, content |-> content, stage |-> stage, metadata |-> metadata]

\* the values a caller stores as metadata or as a stage output: a value
\* json.dump writes natively, an object with model_dump(), any other object
JsonValue == "json"
ModelValue == "model"
ObjectValue == "object"

\* `metadata or {}`
metadata_or_empty(metadata) == IF metadata = None THEN "{}" ELSE metadata

\* what json.load reads back after json.dump(value, default=str)
json_round_trip(value) ==
    IF value \in {ModelValue, ObjectValue} THEN "str" ELSE value

\* `v.model_dump() if hasattr(v, 'model_dump') else v`
dumped(value) == IF value = ModelValue THEN "model_dump" ELSE value

\* Message.to_dict, as json.dump writes it
to_dict(msg) ==
    [role |-> role_value(msg.role), content |-> msg.content,
     stage |-> msg.stage, metadata |-> json_round_trip(msg.metadata)]

\* Message.from_dict
from_dict(data) ==
    Message(role_of_value(data.role), data.content, data.stage, data.metadata)

\* the stage names used as keys of _stage_outputs
HistStages == {INTERVIEW, DESIGN}

\* list[-n:]
last_slice(list, n) ==
    IF n > 0
    THEN IF n >= Len(list) THEN list
         ELSE SubSeq(list, Len(list) - n + 1, Len(list))
    ELSE IF n = 0 THEN list
    ELSE SubSeq(list, (0 - n) + 1, Len(list))

\* ConversationHistory.get_recent
get_recent(list, count) ==
    IF count < Len(list) THEN last_slice(list, count) ELSE list

\* the list add_message leaves behind
added(list, msg, max) ==
    IF Len(Append(list, msg)) > max
    THEN last_slice(Append(list, msg), max)
    ELSE Append(list, msg)

\* the position of the first message of the stage, 0 when there is none
\* (idx is None)
first_of_stage(list, stage) ==
    IF \E i \in 1..Len(list) : list[i].stage = stage
    THEN CHOOSE i \in 1..Len(list) :
             /\ list[i].stage = stage
             /\ \A j \in 1..(i - 1) : list[j].stage # stage
    ELSE 0

\* clear_from_stage dropping only the messages of the stage
cleared_from_stage_only(list, stage) ==
    SelectSeq(list, LAMBDA m : m.stage # stage)

\* the list clear_from_stage leaves behind: self._messages[:idx]
cleared_from_stage(list, stage) ==
    IF first_of_stage(list, stage) = 0 THEN list
    ELSE SubSeq(list, 1, first_of_stage(list, stage) - 1)

\* the outputs clear_from_stage leaves behind
cleared_outputs(list, outputs, stage) ==
    IF first_of_stage(list, stage) = 0 THEN outputs
    ELSE [s \in DOMAIN outputs |-> IF s = stage THEN NoOutput ELSE outputs[s]]

\* the document save writes
saved_document(list, outputs) ==
    [messages |-> [i \in 1..Len(list) |-> to_dict(list[i])],
     stage_outputs |-> [s \in DOMAIN outputs |->
                           json_round_trip(dumped(outputs[s]))]]

\* load appending to the messages it holds
loaded_messages_appended(list, data) ==
    list \o [i \in 1..Len(data.messages) |-> from_dict(data.messages[i])]

\* the messages load leaves behind
loaded_messages(list, data) ==
    [i \in 1..Len(data.messages) |-> from_dict(data.messages[i])]

\* the outputs load leaves behind
loaded_outputs(outputs, data) == data.stage_outputs

\* the values of max_history a history is constructed with
MaxHistories == 0..MaxHistory \cup {DefaultMaxHistory}

HistInit ==
    /\ max_history \in MaxHistories
    /\ messages = <<>>
    /\ history_outputs = [s \in HistStages |-> NoOutput]
    /\ appended = <<>>
    /\ file = <<>>
    /\ at_save = <<>>

\* add_message: append, then trim to the newest max_history messages
add_message(role, content, stage, metadata) ==
    LET msg == Message(role, content, stage, metadata_or_empty(metadata)) IN
    /\ Len(appended) < MaxAppends
    /\ messages' = added(messages, msg, max_history)
    /\ appended' = Append(appended, msg)
    /\ UNCHANGED <<max_history, history_outputs, file, at_save>>
    /\ UNCHANGED <<coordVars, concVars, genVars, mgrVars, parseVars, sessVars, detailVars, loopVars>>

\* ConversationHistory.set_stage_output
history_set_stage_output(stage, output) ==
    /\ history_outputs' = [history_outputs EXCEPT ![stage] = output]
    /\ UNCHANGED <<max_history, messages, appended, file, at_save>>
    /\ UNCHANGED <<coordVars, concVars, genVars, mgrVars, parseVars, sessVars, detailVars, loopVars>>

\* ConversationHistory.clear
clear ==
    /\ messages' = <<>>
    /\ history_outputs' = [s \in HistStages |-> NoOutput]
    /\ appended' = <<>>
    /\ UNCHANGED <<max_history, file, at_save>>
    /\ UNCHANGED <<coordVars, concVars, genVars, mgrVars, parseVars, sessVars, detailVars, loopVars>>

\* ConversationHistory.clear_from_stage
clear_from_stage(stage) ==
    /\ messages' = cleared_from_stage(messages, stage)
    /\ history_outputs' = cleared_outputs(messages, history_outputs, stage)
    /\ appended' = cleared_from_stage(messages, stage)
    /\ UNCHANGED <<max_history, file, at_save>>
    /\ UNCHANGED <<coordVars, concVars, genVars, mgrVars, parseVars, sessVars, detailVars, loopVars>>

\* ConversationHistory.save
save ==
    /\ file' = <<saved_document(messages, history_outputs)>>
    /\ at_save' = <<[messages |-> messages, stage_outputs |-> history_outputs]>>
    /\ UNCHANGED <<max_history, messages, history_outputs, appended>>
    /\ UNCHANGED <<coordVars, concVars, genVars, mgrVars, parseVars, sessVars, detailVars, loopVars>>

\* ConversationHistory.load of the file save wrote
load ==
    /\ file # <<>>
    /\ messages' = loaded_messages(messages, file[1])
    /\ history_outputs' = loaded_outputs(history_outputs, file[1])
    /\ appended' = loaded_messages(messages, file[1])
    /\ UNCHANGED <<max_history, file, at_save>>
    /\ UNCHANGED <<coordVars, concVars, genVars, mgrVars, parseVars, sessVars, detailVars, loopVars>>

\* the messages and outputs callers pass while the history is trimmed and
\* cut back
HistContents == {"a", "b"}

HistNext ==
    \/ \E content \in HistContents, stage \in HistStages \cup {None} :
          add_message(USER, content, stage, None)
    \/ \E stage \in HistStages : history_set_stage_output(stage, JsonValue)
    \/ clear
    \/ \E stage \in HistStages : clear_from_stage(stage)

\* the messages and outputs callers pass around save and load: a user
\* message without metadata, an assistant message whose metadata holds an
\* object
PersistMessages == {<<USER, None>>, <<ASSISTANT, ObjectValue>>}

PersistNext ==
    \/ \E m \in PersistMessages : add_message(m[1], "a", INTERVIEW, m[2])
    \/ \E output \in {JsonValue, ModelValue} :
          history_set_stage_output(INTERVIEW, output)
    \/ clear
    \/ save
    \/ load

\* ------------------------------------------------------- InterviewManager
\* config.max_history of the managers constructed
MgrMaxHistory == 1

\* what the LLM transport answers every prompt with: nothing, text that
\* holds no JSON and names no field, a JSON object with a project_name
NoText == ""
ProseText == "prose"
JsonText == "{\"project_name\": \"name\"}"
Texts == {NoText, ProseText, JsonText}

\* the dicts held as requirements: {} and one that carries "project_name"
EmptyDict == "{}"
NamedDict == "{project_name}"
ProjectName == "name"
UntitledProject == "untitled-project"

\* the content of a stage's system prompt; the manager never reads it back
SystemPrompt == "system_prompt"

\* what the user types that is no command: feedback, blanks
UserMessages == {"feedback", " "}

\* JSONExtractor.extract_json: the object found in the text, None without
extract_json(response) == IF response = JsonText THEN NamedDict ELSE None

\* JSONExtractor.extract_interview_data: the object found, else the fields
\* the patterns match
extract_interview_data(response) ==
    IF extract_json(response) \notin {None, EmptyDict}
    THEN extract_json(response)
    ELSE EmptyDict

\* isinstance(extracted, dict)
is_dict(extracted) == extracted \in {EmptyDict, NamedDict}

\* dict.update
dict_update(dict, other) == IF other = EmptyDict THEN dict ELSE other

\* dict.get("project_name", default)
get_project_name(dict, default) ==
    IF dict = NamedDict THEN ProjectName ELSE default

\* HandoffPrompt(content=response, next_steps=[])
HandoffPrompt(content) == [content |-> content, next_steps |-> <<>>]

\* what the coordinator is handed as a stage's output
stored(value) == IF value = None THEN NoOutput ELSE "output"

\* InterviewManager.is_complete
is_complete == In(HANDOFF, completed_stages)

\* InterviewManager.__init__: the coordinator with the manager's listener
MgrCoordInit ==
    /\ current_stage = INTERVIEW
    /\ completed_stages = <<>>
    /\ stage_outputs = [s \in Stage |-> NoOutput]
    /\ on_stage_change = TRUE

\* InterviewManager.__init__: the history, of config.max_history
MgrHistInit == HistInit /\ max_history = MgrMaxHistory

\* InterviewManager.__init__
MgrInit ==
    /\ transport \in Texts
    /\ requirements = EmptyDict
    /\ project_name = None
    /\ design = None
    /\ handoff = <<>>
    /\ output_dir = <<>>
    /\ dones = 0
    /\ scripted = TRUE

\* a manager no run reads
MgrDefault == MgrInit /\ transport = ProseText

\* one more stage completed, counted while the run is on the script of one
\* /done per stage
one_more(n) == IF scripted /\ n < Len(order) THEN n + 1 ELSE n

\* the coordinator becomes the outcome's
Becomes(self) ==
    /\ current_stage' = self.current_stage
    /\ completed_stages' = self.completed_stages
    /\ stage_outputs' = self.stage_outputs
    /\ on_stage_change' = self.on_stage_change

\* add_system_message, add_user_message, add_assistant_message
add_role_message(list, role, content, stage) ==
    added(list, Message(role, content, stage, metadata_or_empty(None)),
          max_history)

\* _generate_design, _generate_devplan, _generate_detailed,
\* _generate_handoff: the stage's system prompt and the response are added
generated(list, stage) ==
    add_role_message(add_role_message(list, SYSTEM, SystemPrompt, stage),
                     ASSISTANT, transport, stage)

\* the files _save_progress writes next to conversation.json
output_files(reqs, dsgn, hand) ==
    [requirements |-> reqs,
     design |-> dsgn,
     handoff |-> IF hand = <<>> THEN None ELSE hand[1].content]

\* InterviewManager._save_progress
_save_progress ==
    /\ project_name' = IF project_name = None THEN UntitledProject
                       ELSE project_name
    /\ output_dir' = <<output_files(requirements, design, handoff)>>
    /\ file' = <<saved_document(messages, history_outputs)>>
    /\ at_save' = <<[messages |-> messages, stage_outputs |-> history_outputs]>>

\* _complete_current_stage with the advance left out
completed_not_advanced(self, stage, output) ==
    mark_complete_call(self, stage, output)

\* _complete_current_stage: mark_complete, then advance_stage
completed_and_advanced(self, stage, output) ==
    advance_stage_call(mark_complete_call(self, stage, output).self)

\* the requirements _complete_current_stage leaves the interview with
final_requirements(reqs, response) ==
    IF reqs = EmptyDict
    THEN IF is_dict(extract_json(response)) THEN extract_json(response)
         ELSE EmptyDict
    ELSE reqs

\* the output _complete_current_stage hands over for the stage;
\* self._devplan is never assigned
completion_output(stage, reqs) ==
    CASE stage = INTERVIEW -> stored(reqs)
      [] stage = DESIGN    -> stored(design)
      [] stage = DEVPLAN   -> stored(None)
      [] stage = DETAILED  -> stored(None)
      [] stage = HANDOFF   -> IF handoff = <<>> THEN stored(None)
                              ELSE stored(handoff[1].content)

\* InterviewManager._complete_current_stage, the /done command
_complete_current_stage ==
    LET stage == current_stage
        reqs == IF stage = INTERVIEW
                THEN final_requirements(requirements, transport)
                ELSE requirements
    IN  /\ requirements' = reqs
        /\ dones' = one_more(dones)
        /\ IF stage = HANDOFF
           THEN /\ Becomes(mark_complete_call(Self, stage,
                               completion_output(stage, reqs)).self)
                /\ _save_progress
                /\ UNCHANGED <<messages, design, handoff>>
           ELSE /\ Becomes(completed_and_advanced(Self, stage,
                               completion_output(stage, reqs)).self)
                /\ project_name' =
                       IF stage = INTERVIEW /\ project_name = None
                       THEN get_project_name(reqs, UntitledProject)
                       ELSE project_name
                /\ messages' = generated(messages, next_stage(stage))
                /\ design' = IF stage = INTERVIEW THEN "design" ELSE design
                /\ handoff' = IF stage = DETAILED
                              THEN <<HandoffPrompt(transport)>>
                              ELSE handoff
                /\ UNCHANGED <<output_dir, file, at_save>>
        /\ UNCHANGED <<transport, scripted>>
        /\ UNCHANGED <<max_history, history_outputs, appended>>
        /\ UNCHANGED <<concVars, genVars, parseVars, detailVars, loopVars>>

\* _generate_design, _generate_devplan, _generate_detailed,
\* _generate_handoff when the LLM call raises: the stage's system prompt was
\* added, the response was not
generation_raised(list, stage) ==
    add_role_message(list, SYSTEM, SystemPrompt, stage)

\* _complete_current_stage, the interview's extraction call raising: nothing
\* was assigned before it
extraction_raises ==
    /\ current_stage = INTERVIEW
    /\ requirements = EmptyDict
    /\ dones' = 0
    /\ scripted' = FALSE
    /\ UNCHANGED <<transport, requirements, project_name, design, handoff,
                   output_dir>>
    /\ UNCHANGED <<coordVars, concVars, genVars, histVars, parseVars, detailVars, loopVars>>

\* _complete_current_stage, the call that generates the next stage's
\* artifact raising: mark_complete and advance_stage ran before it
generation_raises ==
    LET stage == current_stage
        reqs == IF stage = INTERVIEW
                THEN final_requirements(requirements, transport)
                ELSE requirements
    IN  /\ stage # HANDOFF
        /\ requirements' = reqs
        /\ Becomes(completed_and_advanced(Self, stage,
                        completion_output(stage, reqs)).self)
        /\ project_name' =
               IF stage = INTERVIEW /\ project_name = None
               THEN get_project_name(reqs, UntitledProject)
               ELSE project_name
        /\ messages' = generation_raised(messages, next_stage(stage))
        /\ dones' = 0
        /\ scripted' = FALSE
        /\ UNCHANGED <<transport, design, handoff, output_dir>>
        /\ UNCHANGED <<max_history, history_outputs, appended, file, at_save>>
        /\ UNCHANGED <<concVars, genVars, parseVars, detailVars, loopVars>>

\* chat with a message that is no command, the LLM call raising: the user's
\* message was added, nothing else was done
chat_raises(user_message) ==
    /\ current_stage = INTERVIEW \/ strip(user_message) # ""
    /\ messages' = add_role_message(messages, USER, user_message,
                                    current_stage)
    /\ UNCHANGED mgrVars
    /\ UNCHANGED <<max_history, history_outputs, appended, file, at_save>>
    /\ UNCHANGED <<coordVars, concVars, genVars, parseVars, detailVars, loopVars>>

\* chat with a message that is no command, the history holding list
Chat(list, user_message) ==
    LET with_user == add_role_message(list, USER, user_message, current_stage)
        answered == current_stage = INTERVIEW \/ strip(user_message) # ""
        extracted == extract_interview_data(transport)
        updates == current_stage = INTERVIEW /\ extracted # EmptyDict
    IN  /\ messages' = IF answered
                       THEN add_role_message(with_user, ASSISTANT, transport,
                                             current_stage)
                       ELSE with_user
        /\ requirements' = IF updates THEN dict_update(requirements, extracted)
                           ELSE requirements
        /\ project_name' = IF updates /\ extracted = NamedDict
                           THEN get_project_name(extracted, None)
                           ELSE project_name
        /\ design' = IF current_stage = DESIGN /\ answered THEN "design"
                     ELSE design
        /\ UNCHANGED <<transport, handoff, output_dir, dones, scripted>>
        /\ UNCHANGED <<max_history, history_outputs, appended, file, at_save>>
        /\ UNCHANGED <<coordVars, concVars, genVars, parseVars, detailVars, loopVars>>

\* InterviewManager.chat
chat(user_message) == Chat(messages, user_message)

\* InterviewManager.start
start(initial_message) ==
    LET with_system ==
            add_role_message(messages, SYSTEM, SystemPrompt, INTERVIEW)
    IN  IF initial_message # None
        THEN Chat(with_system, initial_message)
        ELSE /\ messages' = add_role_message(with_system, ASSISTANT, transport,
                                             INTERVIEW)
             /\ UNCHANGED mgrVars
             /\ UNCHANGED <<max_history, history_outputs, appended, file,
                            at_save>>
             /\ UNCHANGED <<coordVars, concVars, genVars, parseVars, detailVars, loopVars>>

\* the /back command
back ==
    /\ IF prev_stage(current_stage) # None
       THEN /\ Becomes(reset_from_stage_call(Self,
                                             prev_stage(current_stage)).self)
            /\ dones' = 0
            /\ scripted' = FALSE
       ELSE UNCHANGED <<coordVars, dones, scripted>>
    /\ UNCHANGED <<transport, requirements, project_name, design, handoff,
                   output_dir>>
    /\ UNCHANGED <<concVars, genVars, histVars, parseVars, detailVars, loopVars>>

\* the /reset command
reset_command ==
    /\ Becomes(reset_call(Self).self)
    /\ messages' = <<>>
    /\ history_outputs' = [s \in HistStages |-> NoOutput]
    /\ appended' = <<>>
    /\ requirements' = EmptyDict
    /\ dones' = 0
    /\ scripted' = FALSE
    /\ UNCHANGED <<transport, project_name, design, handoff, output_dir>>
    /\ UNCHANGED <<max_history, file, at_save>>
    /\ UNCHANGED <<concVars, genVars, parseVars, detailVars, loopVars>>

\* the /save command
save_command ==
    /\ _save_progress
    /\ UNCHANGED <<transport, requirements, design, handoff, dones, scripted>>
    /\ UNCHANGED <<max_history, messages, history_outputs, appended>>
    /\ UNCHANGED <<coordVars, concVars, genVars, parseVars, detailVars, loopVars>>

\* the /model command with an argument: another client takes the
\* transport's place
model_command(text) ==
    /\ transport' = text
    /\ dones' = 0
    /\ scripted' = FALSE
    /\ UNCHANGED <<requirements, project_name, design, handoff, output_dir>>
    /\ UNCHANGED <<coordVars, concVars, genVars, histVars, parseVars, detailVars, loopVars>>

\* /skip, /status, /help, /stage, /model without an argument, an unknown
\* command: an answer and nothing else
info_command == UNCHANGED vars

\* interview_cli.py, automated mode: the interview is skipped on a manager
\* just constructed
automated_start ==
    /\ dones = 0 /\ messages = <<>> /\ project_name = None
    /\ requirements = EmptyDict /\ output_dir = <<>>
    /\ project_name' = ProjectName
    /\ requirements' = NamedDict
    /\ Becomes(completed_and_advanced(Self, INTERVIEW, stored(NamedDict)).self)
    /\ messages' = generated(messages, DESIGN)
    /\ design' = "design"
    /\ dones' = one_more(dones)
    /\ UNCHANGED <<transport, handoff, output_dir, scripted>>
    /\ UNCHANGED <<max_history, history_outputs, appended, file, at_save>>
    /\ UNCHANGED <<concVars, genVars, parseVars, detailVars, loopVars>>

\* the manager on its own, no SessionManager around it
MgrNext ==
    \/ /\ \E initial_message \in UserMessages \cup {None} :
              start(initial_message)
       /\ UNCHANGED sessVars
    \/ /\ \E user_message \in UserMessages : chat(user_message)
       /\ UNCHANGED sessVars
    \/ _complete_current_stage /\ UNCHANGED sessVars
    \/ back /\ UNCHANGED sessVars
    \/ reset_command /\ UNCHANGED sessVars
    \/ save_command /\ UNCHANGED sessVars
    \/ /\ \E text \in Texts : model_command(text)
       /\ UNCHANGED sessVars
    \/ info_command
    \/ automated_start /\ UNCHANGED sessVars

\* the manager given messages, /done, /back and /reset through chat, every
\* LLM call answering or raising
MgrRaiseNext ==
    \/ /\ \E user_message \in UserMessages : chat(user_message)
       /\ UNCHANGED sessVars
    \/ /\ \E user_message \in UserMessages : chat_raises(user_message)
       /\ UNCHANGED sessVars
    \/ _complete_current_stage /\ UNCHANGED sessVars
    \/ extraction_raises /\ UNCHANGED sessVars
    \/ generation_raises /\ UNCHANGED sessVars
    \/ back /\ UNCHANGED sessVars
    \/ reset_command /\ UNCHANGED sessVars

\* --------------------------------------------------------------- JSONExtractor
\* the values the documents denote, and the dicts of a log entry
OtherDict == "{a: 1}"
LargerDict == "{bb: 22}"
EntryDict == "{type, part}"
PartDict == "{type, text}"

\* json.loads of a document, None where it raises
json_loads(text) ==
    IF text = OtherJson THEN OtherDict
    ELSE IF text = LargerJson THEN LargerDict
    ELSE IF text = EmptyJson THEN EmptyDict
    ELSE None

\* JSONExtractor._try_direct_parse of the text that is these lines
_try_direct_parse(lines) ==
    IF Len(strip_lines(lines)) # 1 THEN None
    ELSE IF strip_lines(lines)[1].kind = "json"
         THEN json_loads(strip_lines(lines)[1].text)
    ELSE IF strip_lines(lines)[1].kind = "log" THEN EntryDict
    ELSE None

\* the contents JSON_BLOCK_PATTERN finds, one after another
RECURSIVE code_blocks(_)
code_blocks(lines) ==
    IF Len(lines) < 3 THEN <<>>
    ELSE IF lines[1].kind = "fence_open"
         THEN <<lines[2]>> \o code_blocks(SubSeq(lines, 4, Len(lines)))
         ELSE code_blocks(Tail(lines))

\* the first of the values that is not None, None if there is none
RECURSIVE first_value(_)
first_value(values) ==
    IF values = <<>> THEN None
    ELSE IF Head(values) # None THEN Head(values)
    ELSE first_value(Tail(values))

\* no code block is looked into
no_code_block_read(lines) == None

\* JSONExtractor._extract_from_code_blocks
_extract_from_code_blocks(lines) ==
    first_value([i \in 1..Len(code_blocks(lines)) |->
                    _try_direct_parse(<<code_blocks(lines)[i]>>)])

\* JSONExtractor._extract_from_log_entries: the lines of the texts of the
\* entries, no line where None is returned
_extract_from_log_entries(lines) ==
    IF strip_lines(lines) = <<>> \/ ~starts_with_brace(Head(strip_lines(lines)))
    THEN <<>>
    ELSE extracted_parts(lines)

\* the dicts JSON_OBJECT_PATTERN finds and json.loads accepts, with the
\* length of the match: in a log entry the pattern matches the part
RECURSIVE valid_objects(_)
valid_objects(lines) ==
    IF lines = <<>> THEN <<>>
    ELSE IF Head(lines).kind = "log"
         THEN <<[len |-> 35, object |-> PartDict]>>
              \o valid_objects(Tail(lines))
    ELSE IF Head(lines).kind = "json" /\ json_loads(Head(lines).text) # None
         THEN <<[len |-> IF Head(lines).text = LargerJson THEN 10
                         ELSE IF Head(lines).text = OtherJson THEN 8
                         ELSE 2,
                 object |-> json_loads(Head(lines).text)]>>
              \o valid_objects(Tail(lines))
    ELSE valid_objects(Tail(lines))

\* JSONExtractor._find_json_object: the first of the longest matches
_find_json_object(lines) ==
    LET found == valid_objects(lines)
    IN  IF found = <<>> THEN None
        ELSE found[CHOOSE i \in 1..Len(found) :
                       /\ \A j \in 1..Len(found) : found[j].len <= found[i].len
                       /\ \A j \in 1..(i - 1) : found[j].len < found[i].len
                  ].object

\* JSONExtractor.extract_json, expect_type "object"
extract_json_of(text) ==
    LET lines == split(text)
    IN  IF strip_lines(lines) = <<>> THEN None
        ELSE IF _try_direct_parse(lines) # None
        THEN _try_direct_parse(lines)
        ELSE IF _extract_from_code_blocks(lines) # None
        THEN _extract_from_code_blocks(lines)
        ELSE IF /\ _extract_from_log_entries(lines) # <<>>
                /\ _try_direct_parse(_extract_from_log_entries(lines)) # None
        THEN _try_direct_parse(_extract_from_log_entries(lines))
        ELSE _find_json_object(lines)

\* ------------------------------------------------------------ parser calls
\* every line of the text is of the alphabet
made_of(text, alphabet) == \A i \in 1..Len(text) : text[i] \in alphabet

\* a response of the transport, not parsed yet
ParseInit ==
    /\ raw_response \in DevplanResponses \cup DetailResponses \cup JsonResponses
    /\ parsed = <<>>

\* no response
ParseDefault == raw_response = <<>> /\ parsed = <<>>

\* what a call of a parser leaves: the parser, the phase it was called for
\* if it takes one, and what it handed back
Call(parser, phase_number, outcome) ==
    /\ parsed = <<>>
    /\ parsed' = <<[parser |-> parser, phase_number |-> phase_number,
                    outcome |-> outcome]>>
    /\ UNCHANGED <<raw_response, coordVars, concVars, genVars, histVars, mgrVars,
                   sessVars, detailVars, loopVars>>

\* BasicDevPlanGenerator._parse_response(response, project_name)
parse_response ==
    /\ made_of(raw_response, DevplanLines)
    /\ Call("_parse_response", 0, _parse_response(raw_response))

\* BasicDevPlanGenerator._parse_grouped_response(response, project_name)
parse_grouped_response ==
    /\ made_of(raw_response, DevplanLines)
    /\ Call("_parse_grouped_response", 0, _parse_grouped_response(raw_response))

\* DetailedDevPlanGenerator._parse_steps(response, phase_number)
parse_steps ==
    /\ made_of(raw_response, DetailLines)
    /\ \E phase_number \in PhaseNumbers :
           Call("_parse_steps", phase_number,
                Returned(_parse_steps(raw_response, phase_number)))

\* DetailedDevPlanGenerator._parse_task_groups(response, phase_number)
parse_task_groups ==
    /\ made_of(raw_response, DetailLines)
    /\ \E phase_number \in PhaseNumbers :
           Call("_parse_task_groups", phase_number,
                Returned(_parse_task_groups(raw_response, phase_number)))

\* JSONExtractor.extract_json(response)
call_extract_json ==
    /\ made_of(raw_response, JsonLines)
    /\ Call("extract_json", 0, Returned(extract_json_of(raw_response)))

ParseNext ==
    \/ parse_response
    \/ parse_grouped_response
    \/ parse_steps
    \/ parse_task_groups
    \/ call_extract_json


\* ------------------------------------------------- _generate_phase_details
\* the most lines of a response to the prompt of a phase
MaxDetailLines == 3

\* the lines a response to the prompt of a phase is made of
PhaseDetailLines == DetailLines \cup {Blank}

PhaseDetailResponses ==
    UNION {[1..n -> PhaseDetailLines] : n \in 0..MaxDetailLines}

TaskGroupings == {"flat", "grouped"}

\* steps = [step for group in task_groups for step in group.steps]
RECURSIVE flattened(_)
flattened(task_groups) ==
    IF task_groups = <<>> THEN <<>>
    ELSE Head(task_groups).steps \o flattened(Tail(task_groups))

\* "Parse based on task_grouping mode"
parsed_detail(response, phase_number, grouping) ==
    IF grouping = "grouped"
    THEN [steps |-> flattened(_parse_task_groups(response, phase_number)),
          task_groups |-> _parse_task_groups(response, phase_number)]
    ELSE [steps |-> _parse_steps(response, phase_number),
          task_groups |-> <<>>]

\* `if not response.strip() or not steps`
reprompt_needed(response, steps) ==
    strip_lines(split(response)) = <<>> \/ steps = <<>>

\* PhaseDetailResult(phase=DevPlanPhase(number, title, steps, task_groups),
\* raw_response=response_used)
PhaseDetailResult(number, steps, task_groups, response_used) ==
    [number |-> number, steps |-> steps, task_groups |-> task_groups,
     raw_response |-> response_used]

\* no call of _generate_phase_details yet
DetailInit ==
    /\ detail_call = "none"
    /\ detail_phase = 0
    /\ task_grouping = "flat"
    /\ first_response = <<>>
    /\ reprompts = 0
    /\ response2 = <<>>
    /\ detail_result = <<>>

DetailDefault == DetailInit

DetailFrame ==
    UNCHANGED <<coordVars, concVars, genVars, histVars, mgrVars, parseVars,
                sessVars, loopVars>>

\* _generate_phase_details up to the transport call of the direct branch
generate_phase_details(number, grouping) ==
    /\ detail_call = "none"
    /\ detail_call' = "primary"
    /\ detail_phase' = number
    /\ task_grouping' = grouping
    /\ UNCHANGED <<first_response, reprompts, response2, detail_result>>
    /\ DetailFrame

\* generate_completion returns: the response is parsed, and the phase is
\* returned or the constrained-format prompt goes out
detail_response(response) ==
    LET d == parsed_detail(response, detail_phase, task_grouping) IN
    /\ detail_call = "primary"
    /\ first_response' = <<response>>
    /\ IF reprompt_needed(response, d.steps)
       THEN /\ detail_call' = "fallback"
            /\ reprompts' = reprompts + 1
            /\ UNCHANGED detail_result
       ELSE /\ detail_call' = "returned"
            /\ detail_result' =
                   <<PhaseDetailResult(detail_phase, d.steps, d.task_groups,
                                       response)>>
            /\ UNCHANGED reprompts
    /\ UNCHANGED <<detail_phase, task_grouping, response2>>
    /\ DetailFrame

\* generate_completion raises: nothing around the call catches it
detail_raise ==
    /\ detail_call = "primary"
    /\ detail_call' = "raised"
    /\ UNCHANGED <<detail_phase, task_grouping, first_response, reprompts,
                   response2, detail_result>>
    /\ DetailFrame

\* the constrained-format call returns: `if steps2: steps = steps2`
fallback_response(text) ==
    LET d == parsed_detail(first_response[1], detail_phase, task_grouping)
        steps2 == _parse_steps(text, detail_phase)
    IN  /\ detail_call = "fallback"
        /\ response2' = <<text>>
        /\ detail_call' = "returned"
        /\ detail_result' =
               <<PhaseDetailResult(detail_phase,
                                   IF steps2 # <<>> THEN steps2 ELSE d.steps,
                                   d.task_groups,
                                   IF steps2 # <<>> THEN text
                                   ELSE first_response[1])>>
        /\ UNCHANGED <<detail_phase, task_grouping, first_response, reprompts>>
        /\ DetailFrame

\* the constrained-format call raises: `except Exception: pass`
fallback_raise ==
    LET d == parsed_detail(first_response[1], detail_phase, task_grouping) IN
    /\ detail_call = "fallback"
    /\ detail_call' = "returned"
    /\ detail_result' =
           <<PhaseDetailResult(detail_phase, d.steps, d.task_groups,
                               first_response[1])>>
    /\ UNCHANGED <<detail_phase, task_grouping, first_response, reprompts,
                   response2>>
    /\ DetailFrame

DetailNext ==
    \/ \E number \in PhaseNumbers, grouping \in TaskGroupings :
           generate_phase_details(number, grouping)
    \/ \E response \in PhaseDetailResponses : detail_response(response)
    \/ detail_raise
    \/ \E text \in PhaseDetailResponses : fallback_response(text)
    \/ fallback_raise


\* ------------------------------------------------------ DesignCorrectionLoop
MAX_ITERATIONS == 3

\* confidences, in tenths: CONFIDENCE_THRESHOLD = 0.8, and the 0.9, 0.7 and
\* 0.5 of the reviewer
CONFIDENCE_THRESHOLD == 8
ConfidenceValid == 9
ConfidenceAuto == 7
ConfidenceManual == 5

\* the words of a design text the validator looks for
REQUIRED_SECTIONS == <<"architecture", "database", "testing">>
Databases == <<"postgresql", "mysql">>
ComplexityKeywords == <<"microservice", "distributed", "kubernetes">>
OVER_ENGINEERING_KEYWORDS ==
    <<"microservice", "kubernetes", "distributed", "cqrs">>

DesignWords ==
    Range(REQUIRED_SECTIONS) \cup Range(Databases)
        \cup Range(OVER_ENGINEERING_KEYWORDS)

\* a design text: the words of it the validator looks for, and the footers
\* _apply_corrections has appended; no footer holds one of the words
DesignText(words, footers) == [words |-> words, footers |-> footers]

\* the depth_level of the complexity profile, None with no profile
Profiles == {None, "minimal", "standard"}

\* `keyword in design_lower`
mentions(design_text, keyword) == keyword \in design_text.words

\* [kw for kw in keywords if kw in design_lower]
found(design_text, keywords) ==
    SelectSeq(keywords, LAMBDA kw : mentions(design_text, kw))

DesignValidationIssue(code, auto_correctable) ==
    [code |-> code, auto_correctable |-> auto_correctable]

\* the issue of each check, none where the check passes
_check_completeness(design_text) ==
    IF Len(found(design_text, REQUIRED_SECTIONS)) < Len(REQUIRED_SECTIONS)
    THEN <<DesignValidationIssue("completeness.missing_sections", TRUE)>>
    ELSE <<>>

_check_consistency(design_text) ==
    IF Len(found(design_text, Databases)) > 1
    THEN <<DesignValidationIssue("consistency.multiple_databases", FALSE)>>
    ELSE <<>>

_check_scope_alignment(design_text, profile) ==
    IF /\ profile = "minimal"
       /\ Len(found(design_text, ComplexityKeywords)) > 2
    THEN <<DesignValidationIssue("scope_alignment.over_scoped", TRUE)>>
    ELSE <<>>

_check_hallucinations(design_text) == <<>>

_check_over_engineering(design_text, profile) ==
    IF /\ profile = "minimal"
       /\ found(design_text, OVER_ENGINEERING_KEYWORDS) # <<>>
    THEN <<DesignValidationIssue("over_engineering.complex_for_simple", TRUE)>>
    ELSE <<>>

\* DesignValidator.validate
validate(design_text, profile) ==
    LET issues == _check_completeness(design_text)
                      \o _check_consistency(design_text)
                      \o _check_scope_alignment(design_text, profile)
                      \o _check_hallucinations(design_text)
                      \o _check_over_engineering(design_text, profile)
    IN  [is_valid |-> issues = <<>>,
         auto_correctable |->
             \A i \in 1..Len(issues) : issues[i].auto_correctable,
         issues |-> issues]

\* LLMSanityReviewer.review
review(design_text, validation_report) ==
    IF validation_report.is_valid
    THEN [confidence |-> ConfidenceValid, risks |-> <<>>]
    ELSE [confidence |->
              IF \E i \in 1..Len(validation_report.issues) :
                     ~validation_report.issues[i].auto_correctable
              THEN ConfidenceManual ELSE ConfidenceAuto,
          risks |-> [i \in 1..Len(validation_report.issues) |->
                        validation_report.issues[i].code]]

\* every design is let through
accepted_always(validation, reviewed) == TRUE

\* `validation.is_valid and review.confidence > CONFIDENCE_THRESHOLD`
accepted(validation, reviewed) ==
    validation.is_valid /\ reviewed.confidence > CONFIDENCE_THRESHOLD

\* the footer _apply_corrections appends and the changes it lists
_apply_corrections(design_text, validation, reviewed) ==
    LET resolved == SelectSeq(validation.issues,
                              LAMBDA issue : issue.auto_correctable)
        codes == [i \in 1..Len(resolved) |-> resolved[i].code]
    IN  [design_text |->
             DesignText(design_text.words,
                        Append(design_text.footers,
                               [resolved |-> codes,
                                risks |-> reviewed.risks])),
         changes |-> codes]

\* DesignCorrectionResult, the flags under the names human and reached
DesignCorrectionResult(text, validation, reviewed, human, reached, changes, used) ==
    [design_text |-> text, validation |-> validation,
     review |-> reviewed, requires_human_review |-> human,
     max_iterations_reached |-> reached,
     changes_made |-> changes, iterations_used |-> used]

\* run is called with a design text and a profile
LoopInit ==
    /\ current_design \in {DesignText(words, <<>>) : words \in SUBSET DesignWords}
    /\ complexity_profile \in Profiles
    /\ iteration = 0
    /\ all_changes = <<>>
    /\ correction_result = <<>>

\* no call of run
LoopDefault ==
    /\ current_design = DesignText({}, <<>>)
    /\ complexity_profile = None
    /\ iteration = 0
    /\ all_changes = <<>>
    /\ correction_result = <<>>

LoopFrame ==
    UNCHANGED <<coordVars, concVars, genVars, histVars, mgrVars, parseVars,
                sessVars, detailVars>>

\* one round of `for iteration in range(MAX_ITERATIONS)`
correction_round ==
    LET validation == validate(current_design, complexity_profile)
        reviewed == review(current_design, validation)
        corrected == _apply_corrections(current_design, validation, reviewed)
    IN  /\ correction_result = <<>>
        /\ iteration < MAX_ITERATIONS
        /\ iteration' = iteration + 1
        /\ IF accepted(validation, reviewed)
           THEN /\ correction_result' =
                       <<DesignCorrectionResult(current_design, validation,
                                                reviewed, FALSE, FALSE,
                                                all_changes, iteration + 1)>>
                /\ UNCHANGED <<current_design, all_changes>>
           ELSE IF ~validation.auto_correctable
           THEN /\ correction_result' =
                       <<DesignCorrectionResult(current_design, validation,
                                                reviewed, TRUE, FALSE,
                                                all_changes, iteration + 1)>>
                /\ UNCHANGED <<current_design, all_changes>>
           ELSE /\ current_design' = corrected.design_text
                /\ all_changes' = all_changes \o corrected.changes
                /\ UNCHANGED correction_result
        /\ UNCHANGED complexity_profile
        /\ LoopFrame

\* the loop has run out: the final validation and review
correction_exhausted ==
    LET final_validation == validate(current_design, complexity_profile)
        final_review == review(current_design, final_validation)
    IN  /\ correction_result = <<>>
        /\ iteration = MAX_ITERATIONS
        /\ correction_result' =
               <<DesignCorrectionResult(current_design, final_validation,
                                        final_review, FALSE, TRUE,
                                        all_changes, MAX_ITERATIONS)>>
        /\ UNCHANGED <<current_design, complexity_profile, iteration,
                       all_changes>>
        /\ LoopFrame

LoopNext == correction_round \/ correction_exhausted


\* ----------------------------------------------------------- SessionManager
\* the most sessions created
MaxSessions == 2

\* the ids create_session gives, f"session_{int(time.time())}", one second
\* or more apart
SessionIds == 1..MaxSessions

\* what process_message is handed
SessionMessages == {"feedback", "/done", "/back"}

\* SessionState as save_state writes it
SessionState(session_id, stage, complete, name) ==
    [session_id |-> session_id, current_stage |-> stage,
     is_complete |-> complete, project_name |-> name]

\* the coordinator of an InterviewManager just constructed
NewCoordinator ==
    [current_stage |-> INTERVIEW,
     completed_stages |-> <<>>,
     stage_outputs |-> [s \in Stage |-> NoOutput],
     on_stage_change |-> TRUE]

\* self.manager = InterviewManager(config): nothing of an earlier manager is
\* left in memory; what is on disk stays
new_manager(name) ==
    /\ Becomes(NewCoordinator)
    /\ messages' = <<>>
    /\ history_outputs' = [s \in HistStages |-> NoOutput]
    /\ appended' = <<>>
    /\ requirements' = EmptyDict
    /\ project_name' = name
    /\ design' = None
    /\ handoff' = <<>>
    /\ dones' = 0
    /\ scripted' = TRUE
    /\ UNCHANGED <<transport, output_dir, max_history, file, at_save>>

\* the pointer is left where it is
pointer_kept(pointer, complete) == pointer

\* process_message: `if self.manager.is_complete: ... clear_active_session()`
pointer_after(pointer, complete) == IF complete THEN <<>> ELSE pointer

\* nothing is written
state_not_saved == UNCHANGED session_files

\* str(self.manager.coordinator.current_stage): the member's name after the
\* class's
stage_str(stage) ==
    CASE stage = INTERVIEW -> "Stage.INTERVIEW"
      [] stage = DESIGN    -> "Stage.DESIGN"
      [] stage = DEVPLAN   -> "Stage.DEVPLAN"
      [] stage = DETAILED  -> "Stage.DETAILED"
      [] stage = HANDOFF   -> "Stage.HANDOFF"

\* SessionManager.save_state, after the manager has moved
save_state ==
    session_files' =
        [session_files EXCEPT ![session_state[1]] =
            <<SessionState(session_state[1], stage_str(current_stage'),
                           In(HANDOFF, completed_stages'), project_name')>>]

\* the stage and the completed stages of one InterviewManager kept in memory
\* and handed the same message
reference_after(ref, message) ==
    IF message = "/done"
    THEN IF ref.current_stage = HANDOFF
         THEN mark_complete_call(ref, HANDOFF, NoOutput).self
         ELSE completed_and_advanced(ref, ref.current_stage, NoOutput).self
    ELSE IF message = "/back" /\ prev_stage(ref.current_stage) # None
    THEN reset_from_stage_call(ref, prev_stage(ref.current_stage)).self
    ELSE ref

\* no SessionManager has been constructed, nothing is on disk
SessInit ==
    /\ active_session = <<>>
    /\ session_files = [id \in SessionIds |-> <<>>]
    /\ session_state = <<>>
    /\ session_call = "none"
    /\ created = 0
    /\ ended = [id \in SessionIds |-> "no"]
    /\ reference = NewCoordinator
    /\ every_message_resumed = TRUE

SessDefault == SessInit

\* get_active_session_id() and session_exists(active_id)
resumable ==
    /\ active_session # <<>>
    /\ session_files[active_session[1]] # <<>>

\* create_session up to `await self.manager.start(...)`: the manager, the
\* state, the pointer
create_session_called ==
    /\ session_call \in {"none", "loaded", "ready"}
    /\ ~resumable
    /\ created < MaxSessions
    /\ created' = created + 1
    /\ new_manager(None)
    /\ session_state' = <<created + 1>>
    /\ active_session' = <<created + 1>>
    /\ session_call' = "starting"
    /\ reference' = NewCoordinator
    /\ every_message_resumed' = TRUE
    /\ UNCHANGED <<session_files, ended>>
    /\ UNCHANGED <<concVars, genVars, parseVars, detailVars, loopVars>>

\* create_session from the answer of start on: the snapshot is written
create_session(initial_message) ==
    /\ session_call = "starting"
    /\ start(initial_message)
    /\ save_state
    /\ session_call' = "ready"
    /\ UNCHANGED <<active_session, session_state, created, ended, reference,
                   every_message_resumed>>

\* SessionManager.load_state(active_id), on a SessionManager just
\* constructed: a new invocation
load_state ==
    /\ session_call \in {"none", "loaded", "ready"}
    /\ resumable
    /\ new_manager(session_files[active_session[1]][1].project_name)
    /\ session_state' = active_session
    /\ session_call' = "loaded"
    /\ UNCHANGED <<active_session, session_files, created, ended, reference,
                   every_message_resumed>>
    /\ UNCHANGED <<concVars, genVars, parseVars, detailVars, loopVars>>

\* InterviewManager.chat as it takes the message
manager_chat(message) ==
    IF message = "/done" THEN _complete_current_stage
    ELSE IF message = "/back" THEN back
    ELSE chat(message)

\* SessionManager.process_message
process_message(message) ==
    /\ session_call \in {"loaded", "ready"}
    /\ manager_chat(message)
    /\ save_state
    /\ active_session' =
           pointer_after(active_session, In(HANDOFF, completed_stages'))
    /\ ended' = IF In(HANDOFF, completed_stages')
                THEN [ended EXCEPT ![session_state[1]] = "complete"]
                ELSE ended
    /\ reference' = reference_after(reference, message)
    /\ every_message_resumed' =
           (every_message_resumed /\ session_call = "loaded")
    /\ session_call' = "ready"
    /\ UNCHANGED <<session_state, created>>

\* run_non_tty_mode on /quit or /exit: clear_active_session
quit ==
    /\ session_call = "loaded"
    /\ active_session' = <<>>
    /\ ended' = [ended EXCEPT ![session_state[1]] = "quit"]
    /\ session_call' = "none"
    /\ UNCHANGED <<session_files, session_state, created, reference,
                   every_message_resumed>>
    /\ UNCHANGED <<coordVars, concVars, genVars, histVars, mgrVars, parseVars, detailVars, loopVars>>

SessNext ==
    \/ create_session_called
    \/ \E initial_message \in {"feedback", None} :
           create_session(initial_message)
    \/ load_state
    \/ \E message \in SessionMessages : process_message(message)
    \/ quit

\* ---------------------------------------------------------- specifications
\* a manager constructed with no arguments, left alone
ConcDefault == ConcInit /\ limit = DefaultLimit

\* a history constructed with no arguments
HistDefault == HistInit /\ max_history = DefaultMaxHistory

Init == CoordInit /\ ConcDefault /\ GenInit /\ HistDefault /\ MgrDefault
        /\ ParseDefault /\ SessDefault /\ DetailDefault /\ LoopDefault

Next == CoordNext

\* the StageCoordinator under any sequence of calls
Spec == Init /\ [][Next]_vars

\* a manager constructed with any configuration
InitConc == CoordInit /\ ConcInit /\ GenInit /\ HistDefault /\ MgrDefault
        /\ ParseDefault /\ SessDefault /\ DetailDefault /\ LoopDefault

\* the ConcurrencyManager under any interleaving of its units
SpecConc == InitConc /\ [][ConcNext]_vars

\* the event loop runs what can run: a waiter is woken while a slot is free,
\* and a unit that was started finishes, by returning or by raising
ConcFairness ==
    \A u \in Units :
        /\ WF_vars(sem_acquire(u))
        /\ WF_vars(unit_return(u) \/ unit_raise(u))

\* the ConcurrencyManager on a loop that keeps running its units
SpecConcFair == SpecConc /\ ConcFairness

\* a generator constructed over a manager of any configuration
InitGen == CoordInit /\ ConcInit /\ GenInit /\ HistDefault /\ MgrDefault
        /\ ParseDefault /\ SessDefault /\ DetailDefault /\ LoopDefault

\* DetailedDevPlanGenerator.generate under any interleaving of its tasks and
\* of the transport's answers
SpecGen == InitGen /\ [][GenNext]_vars

\* a history constructed with any maximum
InitHist == CoordInit /\ ConcDefault /\ GenInit /\ HistInit /\ MgrDefault
        /\ ParseDefault /\ SessDefault /\ DetailDefault /\ LoopDefault

\* ConversationHistory under any sequence of calls that add and remove
SpecHist == InitHist /\ [][HistNext]_vars

\* ConversationHistory, default maximum, under any sequence of calls around
\* save and load
InitPersist == CoordInit /\ ConcDefault /\ GenInit /\ HistDefault /\ MgrDefault
        /\ ParseDefault /\ SessDefault /\ DetailDefault /\ LoopDefault

SpecPersist == InitPersist /\ [][PersistNext]_vars

\* a manager constructed over any transport, with a short history
InitMgr == MgrCoordInit /\ ConcDefault /\ GenInit /\ MgrHistInit /\ MgrInit
        /\ ParseDefault /\ SessDefault /\ DetailDefault /\ LoopDefault

\* the InterviewManager under any sequence of messages and commands
SpecMgr == InitMgr /\ [][MgrNext]_vars

\* the InterviewManager under messages, /done, /back and /reset, with LLM
\* calls that answer or raise
SpecMgrRaise == InitMgr /\ [][MgrRaiseNext]_vars

\* a response of the transport, handed to one of the parsers
InitParse == CoordInit /\ ConcDefault /\ GenInit /\ HistDefault /\ MgrDefault
        /\ ParseInit /\ SessDefault /\ DetailDefault /\ LoopDefault

\* every parser on every response
SpecParse == InitParse /\ [][ParseNext]_vars

\* nothing on disk, a manager over any transport, with a short history
InitSess == MgrCoordInit /\ ConcDefault /\ GenInit /\ MgrHistInit /\ MgrInit
        /\ ParseDefault /\ SessInit /\ DetailDefault /\ LoopDefault

\* SessionManager under any sequence of invocations and messages
SpecSess == InitSess /\ [][SessNext]_vars

\* a generator about to detail one phase
InitDetail == CoordInit /\ ConcDefault /\ GenInit /\ HistDefault /\ MgrDefault
        /\ ParseDefault /\ SessDefault /\ DetailInit /\ LoopDefault

\* _generate_phase_details of one phase under any answers of the transport
SpecDetail == InitDetail /\ [][DetailNext]_vars

\* run called with any design text and any profile
InitLoop == CoordInit /\ ConcDefault /\ GenInit /\ HistDefault /\ MgrDefault
        /\ ParseDefault /\ SessDefault /\ DetailDefault /\ LoopInit

\* DesignCorrectionLoop.run
SpecLoop == InitLoop /\ [][LoopNext]_vars

\* run is one synchronous call: it keeps running until it returns
SpecLoopFair == SpecLoop /\ WF_vars(LoopNext)

\* ------------------------------------------------- StageCoordinator claims
\* the stages a stage declares as required
Required(stage) == Range(requires_previous(stage))

\* stage t is at or after stage s in the canonical order
AtOrAfter(t, s) == index(t) >= index(s)

\* number of occurrences of x in list s
Count(s, x) == Cardinality({i \in 1..Len(s) : s[i] = x})

\* the arguments callers pass
StageArgs == Stage \cup {None}
OutputArgs == Outputs \cup {NoOutput}

\* C1: in every reachable state every required predecessor of the current
\* stage is in the completed list.
C1_CurrentRequirementsCompleted ==
    \A r \in Required(current_stage) : In(r, completed_stages)

\* C2: whenever advance_stage returns a stage, the previous current stage was
\* completed, every required predecessor of the returned stage was completed,
\* the returned stage is the immediate successor of the previous current
\* stage, the current stage is now the returned stage, and a registered
\* listener was invoked exactly once, with (old stage, new stage).
C2_AdvanceReturnsSuccessor ==
    LET c == advance_stage_call(Self) IN
    c.ret \in Stage =>
        /\ In(current_stage, completed_stages)
        /\ \A r \in Required(c.ret) : In(r, completed_stages)
        /\ index(c.ret) = index(current_stage) + 1
        /\ c.self.current_stage = c.ret
        /\ on_stage_change => c.notified = <<<<current_stage, c.ret>>>>
        /\ ~on_stage_change => c.notified = <<>>

\* a state in which advance_stage moves DESIGN -> DEVPLAN and notifies
C2_Witness ==
    /\ on_stage_change
    /\ current_stage = DESIGN
    /\ advance_stage_call(Self).ret = DEVPLAN
    /\ advance_stage_call(Self).notified = <<<<DESIGN, DEVPLAN>>>>

\* C3: advance_stage returns None, leaves the current stage, the completed
\* list and the stored outputs unchanged and notifies nobody whenever the
\* current stage is not completed, or is HANDOFF, or some required predecessor
\* of the successor is not completed.
C3_AdvanceNoOp ==
    LET c == advance_stage_call(Self) IN
    (\/ ~In(current_stage, completed_stages)
     \/ current_stage = HANDOFF
     \/ /\ current_stage # HANDOFF
        /\ \E r \in Required(order[index(current_stage) + 1]) :
               ~In(r, completed_stages)) =>
        /\ c.ret = None
        /\ c.notified = <<>>
        /\ c.self = Self

\* a listening coordinator at the completed terminal stage, outputs stored
C3_Witness ==
    /\ on_stage_change
    /\ current_stage = HANDOFF
    /\ In(HANDOFF, completed_stages)
    /\ stage_outputs[HANDOFF] # NoOutput
    /\ advance_stage_call(Self).ret = None

\* C4: after reset_from_stage(s) no stage at or after s is in the completed
\* list or in the output dict, the current stage is s, and the completion
\* status and stored output of every stage before s are what they were.
C4_ResetFromStage ==
    \A s \in Stage :
        LET c == reset_from_stage_call(Self, s) IN
        /\ c.self.current_stage = s
        /\ \A t \in Stage :
              IF AtOrAfter(t, s)
              THEN /\ ~In(t, c.self.completed_stages)
                   /\ c.self.stage_outputs[t] = NoOutput
              ELSE /\ In(t, c.self.completed_stages) <=> In(t, completed_stages)
                   /\ c.self.stage_outputs[t] = stage_outputs[t]

\* DEVPLAN is complete, with outputs, and reset_from_stage(DESIGN) keeps
\* only INTERVIEW
C4_Witness ==
    /\ current_stage = DETAILED
    /\ completed_stages = <<INTERVIEW, DESIGN, DEVPLAN>>
    /\ \A s \in Range(completed_stages) : stage_outputs[s] # NoOutput
    /\ reset_from_stage_call(Self, DESIGN).self.completed_stages = <<INTERVIEW>>
    /\ reset_from_stage_call(Self, DESIGN).self.stage_outputs[INTERVIEW] # NoOutput

\* C5: go_to_stage(s) returns False, changes nothing and notifies nobody
\* exactly when some required predecessor of s is not completed; otherwise it
\* returns True, makes s the current stage from any current stage, invokes a
\* registered listener once with (old, s) and leaves the completed list and
\* the outputs unchanged.
C5_GoToStage ==
    \A s \in Stage :
        LET c == go_to_stage_call(Self, s) IN
        IF \E r \in Required(s) : ~In(r, completed_stages)
        THEN /\ c.ret = "False"
             /\ c.notified = <<>>
             /\ c.self = Self
        ELSE /\ c.ret = "True"
             /\ c.self = [Self EXCEPT !.current_stage = s]
             /\ on_stage_change => c.notified = <<<<current_stage, s>>>>
             /\ ~on_stage_change => c.notified = <<>>

\* a jump INTERVIEW -> HANDOFF with only DETAILED completed, and a refused
\* jump to DEVPLAN
C5_Witness ==
    /\ on_stage_change
    /\ current_stage = INTERVIEW
    /\ completed_stages = <<DETAILED>>
    /\ go_to_stage_call(Self, HANDOFF).ret = "True"
    /\ go_to_stage_call(Self, HANDOFF).notified = <<<<INTERVIEW, HANDOFF>>>>
    /\ go_to_stage_call(Self, DEVPLAN).ret = "False"

\* C6: mark_complete(s, o) is idempotent and does not move the current
\* pointer: after it the stage occurs exactly once in the completed list,
\* applying it again with the same arguments gives the same completed list and
\* output dict, and the current stage is what it was.
C6_MarkCompleteIdempotent ==
    \A s \in StageArgs, o \in OutputArgs :
        LET once == mark_complete_call(Self, s, o)
            twice == mark_complete_call(once.self, s, o)
            t == IF s = None THEN current_stage ELSE s
        IN  /\ once.self.current_stage = current_stage
            /\ twice.self.current_stage = current_stage
            /\ Count(once.self.completed_stages, t) = 1
            /\ Count(twice.self.completed_stages, t) = 1
            /\ twice.self.completed_stages = once.self.completed_stages
            /\ twice.self.stage_outputs = once.self.stage_outputs

\* a stage completed before, with an output, is marked complete again
C6_Witness ==
    /\ current_stage = DESIGN
    /\ completed_stages = <<DESIGN, INTERVIEW>>
    /\ stage_outputs[DESIGN] # NoOutput
    /\ mark_complete_call(Self, None, NoOutput).self = Self

\* C7: get_context_for_stage(s) depends only on s and on the stored outputs of
\* the stages s requires: it has no key for the output of any other stage, the
\* keys it has carry the outputs of required stages, and a coordinator that
\* differs in the current stage, or in the output of a stage s does not
\* require, gives the same dict.
C7_ContextOnlyFromRequired ==
    \A s \in Stage :
        LET ctx == get_context_for_stage(Self, s) IN
        /\ DOMAIN ctx \subseteq
              {"stage", "stage_name"} \cup {output_key(r) : r \in Required(s)}
        /\ \A r \in Required(s) :
              IF stage_outputs[r] = NoOutput THEN output_key(r) \notin DOMAIN ctx
              ELSE /\ output_key(r) \in DOMAIN ctx
                   /\ ctx[output_key(r)] = stage_outputs[r]
        /\ \A cur \in Stage :
              get_context_for_stage([Self EXCEPT !.current_stage = cur], s) = ctx
        /\ \A t \in Stage \ Required(s), o \in OutputArgs :
              get_context_for_stage(
                  [Self EXCEPT !.stage_outputs = set_stage_output(@, t, o)], s) = ctx

\* every stage has a stored output and the DEVPLAN context carries DESIGN's
C7_Witness ==
    /\ \A s \in Stage : stage_outputs[s] # NoOutput
    /\ current_stage = HANDOFF
    /\ DOMAIN get_context_for_stage(Self, DEVPLAN)
          = {"stage", "stage_name", "design_output"}

\* ----------------------------------------------- ConcurrencyManager claims
\* C8: at every moment at most `limit` units are running inside
\* run_with_limit, gather_with_limit or acquire.
C8_RunningAtMostLimit == Cardinality(running) <= limit

C8_Witness ==
    /\ limit = 2
    /\ Cardinality(running) = 2
    /\ \E u \in Units : ustate[u] = "waiting"
    /\ {ukind[u] : u \in Units} = {"run_with_limit", "gather", "acquire"}

\* C9: the list gather_with_limit returns holds the results in input order,
\* result i being that of unit i, whatever the completion order and whatever
\* the limit.
C9_GatherInputOrder ==
    gather_state = "returned" =>
        /\ Len(gather_results) = Len(batch)
        /\ \A i \in 1..Len(batch) : gather_results[i] = unit_result(batch[i])

C9_Witness ==
    /\ gather_state = "returned"
    /\ Len(batch) = MaxUnits
    /\ finish_order # batch
    /\ limit = 2

\* C10: a unit gives its slot back when it finishes, by returning or by
\* raising: the free slots are always the limit less the running units, so
\* once every submitted unit has finished all `limit` slots are free.
C10_SlotsReleased ==
    /\ sem_value = limit - Cardinality(running)
    /\ (\A u \in Units : ustate[u] \in {"idle", "returned", "raised"})
          => sem_value = limit

C10_Witness ==
    /\ limit = 1
    /\ sem_value = 1
    /\ \E u, v, w \in Units :
          /\ ustate[u] = "raised"
          /\ ustate[v] = "returned"
          /\ ustate[w] = "idle"

\* --------------------------------------- DetailedDevPlanGenerator claims
\* units of generate holding a slot of the manager
holding == {u \in Launched : ustate[u] = "running"}

Numbers(phases) == {phases[i].number : i \in 1..Len(phases)}

\* the position of the first phase carrying number n
FirstIndex(phases, n) ==
    CHOOSE i \in 1..Len(phases) :
        /\ phases[i].number = n
        /\ \A j \in 1..(i - 1) : phases[j].number # n

\* the numbers of a plan's phases, in plan order
NumbersOf(phases) == [i \in 1..Len(phases) |-> phases[i].number]

\* a list of numbers is strictly ascending
Ascending(numbers) ==
    \A i, j \in 1..Len(numbers) : i < j => numbers[i] < numbers[j]

\* C12: the plan generate returns lists the detailed phases in the order in
\* which their numbers first occur in the input, whatever the order in which
\* the per-phase tasks completed.
C12_InputOrder ==
    gen_state = "returned" =>
        /\ Len(gen_result) = Cardinality(Numbers(basic_phases))
        /\ \A i \in 1..Len(gen_result) :
               gen_result[i].number \in Numbers(basic_phases)
        /\ \A i, j \in 1..Len(gen_result) :
               i < j => FirstIndex(basic_phases, gen_result[i].number)
                            < FirstIndex(basic_phases, gen_result[j].number)

\* generate returned two phases whose tasks completed in the reverse of the
\* input order
C12_Witness ==
    /\ gen_state = "returned"
    /\ Len(gen_result) = 2
    /\ detailed_by_number = <<gen_result[2], gen_result[1]>>

\* C13 as stated: the returned phase list is in ascending phase-number order
\* for every input plan and every completion order.
C13_AscendingNumbers ==
    gen_state = "returned" => Ascending(NumbersOf(gen_result))

\* C13: the returned phase list is in ascending phase-number order for every
\* completion order whenever the first occurrences of the phase numbers in
\* the input plan are in ascending order.
C13_AscendingWhenInputAscending ==
    (/\ gen_state = "returned"
     /\ \A n, m \in Numbers(basic_phases) :
            n < m => FirstIndex(basic_phases, n) < FirstIndex(basic_phases, m))
        => Ascending(NumbersOf(gen_result))

\* an ascending plan with a repeated number, phase 2 completed before phase 1
C13_Witness ==
    /\ gen_state = "returned"
    /\ NumbersOf(basic_phases) = <<1, 2, 2>>
    /\ NumbersOf(detailed_by_number) = <<2, 1>>
    /\ NumbersOf(gen_result) = <<1, 2>>

\* C14: generate launches exactly one per-phase unit per distinct phase
\* number, for the first phase of the input carrying that number, and the
\* returned plan holds each phase number exactly once.
C14_OneUnitPerNumber ==
    gen_state # "none" =>
        /\ {u \in Units : ustate[u] # "idle"} = Launched
        /\ \A n \in Numbers(basic_phases) :
               Cardinality({u \in Launched : tasks[u].number = n}) = 1
        /\ \A u \in Launched :
               /\ tasks[u].number \in Numbers(basic_phases)
               /\ tasks[u] = basic_phases[FirstIndex(basic_phases, tasks[u].number)]
        /\ gen_state = "returned" =>
               /\ \A n \in Numbers(basic_phases) :
                      Cardinality({i \in 1..Len(gen_result) :
                                      gen_result[i].number = n}) = 1
               /\ \A i \in 1..Len(gen_result) :
                      gen_result[i] \in Range(tasks)

\* a plan of three phases, the first and the last carrying the same number,
\* detailed and returned as two phases
C14_Witness ==
    /\ gen_state = "returned"
    /\ NumbersOf(basic_phases) = <<2, 1, 2>>
    /\ Len(tasks) = 2
    /\ gen_result = <<basic_phases[1], basic_phases[2]>>

\* ------------------------------------------------- HiveMindManager claims
\* unit u's run_swarm has a drone whose call failed
drone_failed(u) == \E p \in 1..Len(dstate[u]) : dstate[u][p] = "raised"

\* C15: when one of the k drone calls of a swarm fails, run_swarm fails with
\* the failure of a failed drone, the first one to fail: no arbiter call is
\* made and nothing is built from the drones that returned.
C15_DroneFailureFailsSwarm ==
    \A u \in Launched :
        drone_failed(u) =>
            /\ ustate[u] = "raised"
            /\ ucall[u] = "raised"
            /\ arbiter_prompts[u] = <<>>
            /\ Len(swarm_error[u]) = 1
            /\ dstate[u][swarm_error[u][1] + 1] = "raised"
            /\ u \in Range(done_queue) \/ gen_state = "raised"

\* a swarm of two whose first drone returned text and whose second failed
C15_Witness ==
    \E u \in Launched :
        /\ Len(dstate[u]) = 2
        /\ dstate[u][1] = "steps"
        /\ dstate[u][2] = "raised"
        /\ swarm_error[u] = <<1>>
        /\ gen_state = "raised"

\* C16: for every completion order of the drone calls, the arbiter prompt
\* holds one entry per drone, and the entry with id i + 1 carries the text
\* returned to the drone dispatched with index i.
C16_ArbiterAttribution ==
    \A u \in Launched :
        arbiter_prompts[u] # <<>> =>
            LET drones == arbiter_prompts[u][1] IN
            /\ Len(arbiter_prompts[u]) = 1
            /\ Len(drones) = drone_count
            /\ \A i \in Drones(drone_count) :
                   /\ Cardinality({p \in 1..Len(drones) : drones[p].id = i + 1}) = 1
                   /\ \A p \in 1..Len(drones) :
                          drones[p].id = i + 1 =>
                              drones[p].content = dstate[u][i + 1]

\* two drones returned different texts and the arbiter was called
C16_Witness ==
    \E u \in Launched :
        /\ dstate[u] = <<"prose", "steps">>
        /\ arbiter_prompts[u] =
               <<(<<[id |-> 1, content |-> "prose"],
                    [id |-> 2, content |-> "steps"]>>)>>
        /\ ucall[u] = "done"

\* --------------------------------------------- ConversationHistory claims
\* the smaller of two numbers
Min(a, b) == IF a < b THEN a ELSE b

\* the last min(Len(s), k) elements of s
LastN(s, k) == SubSeq(s, Len(s) - Min(Len(s), k) + 1, Len(s))

\* C17: after any sequence of add_message calls the history holds exactly
\* the last min(n, M) of the n messages appended, in append order, and its
\* length never exceeds M, for every maximum M it was constructed with.
C17_LastMessagesKept ==
    /\ messages = LastN(appended, max_history)
    /\ Len(messages) <= max_history

\* C18: clear_from_stage(s) leaves exactly the messages that preceded the
\* first message tagged s, unchanged and in order, and all messages when
\* none is tagged s: no message tagged s remains and none that came after
\* the first such message.
C18_ClearFromStage ==
    \A s \in HistStages :
        LET after == cleared_from_stage(messages, s) IN
        /\ Len(after) <= Len(messages)
        /\ after = SubSeq(messages, 1, Len(after))
        /\ \A i \in 1..Len(after) : after[i].stage # s
        /\ Len(after) < Len(messages) => messages[Len(after) + 1].stage = s

\* a design message between two interview messages: clear_from_stage(design)
\* keeps the first message only
C18_Witness ==
    /\ Len(messages) = 3
    /\ messages[1].stage = INTERVIEW
    /\ messages[2].stage = DESIGN
    /\ messages[3].stage = INTERVIEW
    /\ cleared_from_stage(messages, DESIGN) = <<messages[1]>>
    /\ history_outputs[DESIGN] # NoOutput
    /\ cleared_outputs(messages, history_outputs, DESIGN)[DESIGN] = NoOutput

\* C19 as stated: once save has run, load leaves the message list and the
\* stage-output map equal to those held when save ran, whatever was added,
\* set or cleared in between.
C19_LoadRestoresSaved ==
    file # <<>> =>
        /\ loaded_messages(messages, file[1]) = at_save[1].messages
        /\ loaded_outputs(history_outputs, file[1]) = at_save[1].stage_outputs

\* C19: once save has run, load leaves the messages held when save ran, in
\* their order and with their role, content and stage, and the stage outputs
\* held then, with every metadata and output value in its JSON form: a value
\* json writes natively is equal, an output with model_dump() is its dump, any
\* other object is its str(); nothing added, set or cleared in between remains.
C19_LoadRestoresJsonForm ==
    file # <<>> =>
        LET saved == at_save[1]
            now == loaded_messages(messages, file[1])
            outputs == loaded_outputs(history_outputs, file[1])
        IN /\ Len(now) = Len(saved.messages)
           /\ \A i \in 1..Len(now) :
                  /\ now[i].role = saved.messages[i].role
                  /\ now[i].content = saved.messages[i].content
                  /\ now[i].stage = saved.messages[i].stage
                  /\ now[i].metadata =
                         IF saved.messages[i].metadata \in {ModelValue, ObjectValue}
                         THEN "str" ELSE saved.messages[i].metadata
           /\ DOMAIN outputs = DOMAIN saved.stage_outputs
           /\ \A s \in DOMAIN outputs :
                  outputs[s] =
                      CASE saved.stage_outputs[s] = ModelValue -> "model_dump"
                        [] saved.stage_outputs[s] = ObjectValue -> "str"
                        [] OTHER -> saved.stage_outputs[s]

\* load has brought back the two saved messages, the object in the metadata
\* as its str(), and the saved model as its dump
C19_Witness ==
    /\ file # <<>>
    /\ Len(at_save[1].messages) = 2
    /\ at_save[1].messages[1].role = USER
    /\ at_save[1].messages[2].metadata = ObjectValue
    /\ at_save[1].stage_outputs[INTERVIEW] = ModelValue
    /\ Len(appended) = 2
    /\ messages = loaded_messages(<<>>, file[1])
    /\ messages[2].metadata = "str"
    /\ history_outputs[INTERVIEW] = "model_dump"

\* ------------------------------------------------- InterviewManager claims
\* C20: on a manager just constructed over a transport that always answers
\* the same non-empty text, the k-th stage completion in a row leaves the
\* current stage at the k+1-th stage of the order; the fifth leaves it at
\* HANDOFF with is_complete true and a handoff prompt of non-empty content,
\* and is_complete is false before it.
C20_DoneWalksStages ==
    (transport # NoText /\ scripted) =>
        /\ current_stage = order[Min(dones + 1, Len(order))]
        /\ is_complete <=> dones = Len(order)
        /\ dones = Len(order) =>
               /\ current_stage = HANDOFF
               /\ handoff # <<>>
               /\ handoff[1].content # ""

\* C20 witness: five completions in a row over a transport that answers
\* prose: the manager is complete at HANDOFF, its handoff prompt carries the
\* transport's text and the files are written.
C20_Witness ==
    /\ transport = ProseText
    /\ scripted
    /\ dones = Len(order)
    /\ current_stage = HANDOFF
    /\ completed_stages = order
    /\ handoff = <<HandoffPrompt(ProseText)>>
    /\ output_dir # <<>>
    /\ output_dir[1].handoff = ProseText
    /\ file # <<>>

\* --------------------------------------------------- error handling claims
\* C24: a transport failure inside a unit's _generate_phase_details, whether
\* of the fallback (constrained-format) call or of a drone call, leaves the
\* unit failed, so that generate hands the failure to its caller; no failed
\* call is swallowed.
C24_TransportFailureSurfaces ==
    \A u \in Launched :
        (fallback_error[u] \/ drone_failed(u)) => ustate[u] = "raised"

\* ------------------------------------------------------- run_swarm claims
\* unit u's run_swarm returned
swarm_returned(u) == swarm_result[u] # <<>>

\* C30: a run_swarm that returned made exactly drone_count drone calls, all
\* of them answered, and exactly one arbiter call whose prompt holds every
\* drone's output; what it returned is what the arbiter call answered. While
\* the arbiter call is in flight no drone call is.
C30_SwarmCallsThenArbiter ==
    \A u \in Launched :
        /\ ucall[u] = "arbiter" =>
               /\ Len(dstate[u]) = drone_count
               /\ \A p \in 1..Len(dstate[u]) : dstate[u][p] \in Responses
        /\ swarm_returned(u) =>
               /\ Len(dstate[u]) = drone_count
               /\ \A p \in 1..Len(dstate[u]) : dstate[u][p] \in Responses
               /\ Len(arbiter_prompts[u]) = 1
               /\ Len(arbiter_prompts[u][1]) = drone_count
               /\ \A p \in 1..Len(dstate[u]) :
                      \E q \in 1..Len(arbiter_prompts[u][1]) :
                          arbiter_prompts[u][1][q].content = dstate[u][p]
               /\ swarm_result[u] = arbiter_responses[u]
               /\ Len(arbiter_responses[u]) = 1

\* a swarm of two drones that answered different texts returned the
\* arbiter's answer, a third text
C30_Witness ==
    \E u \in Launched :
        /\ drone_count = 2
        /\ dstate[u] = <<"prose", " ">>
        /\ swarm_result[u] = <<"steps">>
        /\ arbiter_responses[u] = <<"steps">>
        /\ ustate[u] = "returned"

\* ------------------------------------------------------ devplan parser claims
\* the call of the parser that has been made
parsed_by(parser) == parsed # <<>> /\ parsed[1].parser = parser

\* the lines a devplan parser scans: those of the response, or those of the
\* texts of its log entries when it starts with one
scanned == _extract_text_from_log_entries(split(raw_response))

\* lines of the kinds given
lines_of_kind(lines, kinds) == {i \in 1..Len(lines) : lines[i].kind \in kinds}

\* "Phase N: Title" headers; with "N. Title" and "p.n: step" lines, which
\* the bare pattern of the flat parser takes for headers too
PhaseKinds == {"phase"}
FlatHeaderKinds == {"phase", "numbered", "step"}

\* one phase, numbered 1 and titled "Implementation", was returned
only_implementation(outcome) ==
    /\ outcome.raised = None
    /\ Len(outcome.value) = 1
    /\ outcome.value[1].number = 1
    /\ outcome.value[1].title = "Implementation"

\* a plan was returned, and it has a phase
some_phase(outcome) == outcome.raised = None => Len(outcome.value) >= 1

\* a fenced JSON object that lists phases is among the lines
json_plan_among(lines) ==
    \E i \in lines_of_kind(lines, {"json"}) : json_phases(lines[i].text) # <<>>

\* C21 as stated: a response none of whose lines is a phase header comes back
\* from the flat parser and from the grouped parser as the one phase 1
\* "Implementation", and no plan returned has zero phases
C21_NoHeaderOneFallbackPhase ==
    /\ parsed_by("_parse_response") =>
           /\ lines_of_kind(split(raw_response), FlatHeaderKinds) = {} =>
                  only_implementation(parsed[1].outcome)
           /\ some_phase(parsed[1].outcome)
    /\ parsed_by("_parse_grouped_response") =>
           /\ lines_of_kind(split(raw_response), PhaseKinds) = {} =>
                  only_implementation(parsed[1].outcome)
           /\ some_phase(parsed[1].outcome)

\* C21 amended: when none of the lines the parser scans (the texts of the log
\* entries, for a response that starts with one) is a phase header and, for
\* the grouped parser, none is a group header and no fenced JSON object
\* lists phases, each parser returns the one phase 1 "Implementation"; no
\* plan returned has zero phases
C21_NothingScannedOneFallbackPhase ==
    /\ parsed_by("_parse_response") =>
           /\ lines_of_kind(scanned, FlatHeaderKinds) = {} =>
                  only_implementation(parsed[1].outcome)
           /\ some_phase(parsed[1].outcome)
    /\ parsed_by("_parse_grouped_response") =>
           /\ ( /\ lines_of_kind(scanned, PhaseKinds \cup {"group"}) = {}
                /\ ~json_plan_among(scanned) ) =>
                  only_implementation(parsed[1].outcome)
           /\ some_phase(parsed[1].outcome)

\* the grouped parser was handed prose and bullets under a heading and
\* returned the fallback phase
C21_Witness ==
    /\ parsed_by("_parse_grouped_response")
    /\ raw_response = <<Heading, Prose, Bullet>>
    /\ only_implementation(parsed[1].outcome)

\* the phases returned are as many as the lines given, numbered 1, 2, ... in
\* order
numbered_in_order(outcome, count) ==
    /\ outcome.raised = None
    /\ Len(outcome.value) = count
    /\ \A i \in 1..count : outcome.value[i].number = i

\* the "Phase N: Title" headers of the lines carry 1, 2, ... in order
describes_phases(lines) ==
    LET headers == lines_of_kind(lines, PhaseKinds) IN
    /\ headers # {}
    /\ \A i \in headers :
           lines[i].n = Cardinality({j \in headers : j <= i})

\* C22 as stated: a response whose "Phase N: Title" headers describe phases
\* 1..N comes back from the flat parser as N phases numbered 1..N, whatever
\* lines stand between the headers
C22_OnePhasePerHeader ==
    (parsed_by("_parse_response") /\ describes_phases(split(raw_response)))
    => numbered_in_order(parsed[1].outcome,
                         Cardinality(lines_of_kind(split(raw_response),
                                                   PhaseKinds)))

\* C22 amended: the flat parser returns one phase for every line it scans
\* that one of its five header patterns matches, "N. item" and "p.n: step"
\* lines among them, numbered 1..N in the order of the lines
C22_OnePhasePerMatchingLine ==
    (parsed_by("_parse_response")
     /\ lines_of_kind(scanned, FlatHeaderKinds) # {})
    => numbered_in_order(parsed[1].outcome,
                         Cardinality(lines_of_kind(scanned, FlatHeaderKinds)))

\* two headers with a description, a bullet between them
C22_Witness ==
    /\ parsed_by("_parse_response")
    /\ raw_response = <<PhaseHeader(1), Prose, Bullet, PhaseHeader(2)>>
    /\ numbered_in_order(parsed[1].outcome, 2)

\* the steps of the groups, one group after another
RECURSIVE steps_across(_)
steps_across(groups) ==
    IF groups = <<>> THEN <<>>
    ELSE Head(groups).steps \o steps_across(Tail(groups))

\* every step is numbered p.n, n growing from each step to the next
numbers_increase(steps, p) ==
    /\ \A i \in 1..Len(steps) : steps[i].number[1] = p
    /\ \A i \in 1..(Len(steps) - 1) :
           steps[i].number[2] < steps[i + 1].number[2]

\* every phase of the plan has its steps, those of its task groups taken in
\* order, numbered so
plan_numbers_increase(phases) ==
    \A i \in 1..Len(phases) :
        /\ numbers_increase(phases[i].steps, phases[i].number)
        /\ numbers_increase(steps_across(phases[i].task_groups),
                            phases[i].number)

\* C23: in every plan a parser returns, the steps of phase p are numbered
\* p.n with n strictly increasing in order, across the task groups of the
\* phase in grouped mode
C23_StepNumbersIncrease ==
    /\ (parsed_by("_parse_response") \/ parsed_by("_parse_grouped_response"))
       => (parsed[1].outcome.raised = None
           => plan_numbers_increase(parsed[1].outcome.value))
    /\ parsed_by("_parse_steps")
       => numbers_increase(parsed[1].outcome.value, parsed[1].phase_number)
    /\ parsed_by("_parse_task_groups")
       => numbers_increase(steps_across(parsed[1].outcome.value),
                           parsed[1].phase_number)

\* C25: every parser returns a value for every response, and raises for none
C25_ParsersNeverRaise ==
    parsed # <<>> => parsed[1].outcome.raised = None

\* -------------------------------------------------------- extract_json claims
\* the fenced blocks of the response that hold well-formed JSON other than
\* null
WellFormed == {OtherJson, EmptyJson}

json_fences ==
    {i \in 1..Len(raw_response) :
        raw_response[i].kind = "fence" /\ raw_response[i].text \in WellFormed}

\* the object a well-formed document denotes
denoted(text) == IF text = OtherJson THEN OtherDict ELSE EmptyDict

\* C26 as stated: whichever fenced block of the response holds well-formed
\* JSON, extract_json returns the object that JSON denotes
C26_FencedJsonReturned ==
    parsed_by("extract_json") =>
        \A i \in json_fences :
            parsed[1].outcome.value = denoted(raw_response[i].text)

\* C26 amended: extract_json returns the object the first fenced block that
\* holds well-formed JSON other than null denotes
C26_FirstFencedJsonReturned ==
    (parsed_by("extract_json") /\ json_fences # {}) =>
        LET first == CHOOSE i \in json_fences : \A j \in json_fences : i <= j
        IN  parsed[1].outcome.value = denoted(raw_response[first].text)

\* prose, a fenced null, the fenced object, then a longer object on a line
C26_Witness ==
    /\ parsed_by("extract_json")
    /\ raw_response = <<Prose, Fence(0, NullJson), Fence(1, OtherJson),
                        JsonLine(LargerJson)>>
    /\ parsed[1].outcome.value = OtherDict

\* --------------------------------------------------- SessionManager claims
\* the snapshot on disk of the session the SessionManager in memory holds
snapshot == session_files[session_state[1]][1]

\* the step ends a session: its pipeline completes or its user quits
ends_session == ended' # ended

C28_SnapshotGoneWhenEnded ==
    \A id \in SessionIds : ended[id] # "no" => session_files[id] = <<>>

\* C28 amended: the snapshot of a session whose pipeline has completed or
\* whose user has quit stays on disk and is no longer the one the pointer
\* names; it records is_complete only if the pipeline has completed
C28_SnapshotKeptNotActive ==
    \A id \in SessionIds :
        ended[id] # "no" =>
            /\ session_files[id] # <<>>
            /\ session_files[id][1].session_id = id
            /\ active_session # <<id>>
            /\ session_files[id][1].is_complete => ended[id] = "complete"

\* the snapshot of a completed session and the snapshot of a session that
\* was quit, both on disk
C28_Witness ==
    /\ ended[1] = "complete"
    /\ session_files[1] # <<>>
    /\ session_files[1][1].is_complete
    /\ ended[2] = "quit"
    /\ session_files[2] # <<>>
    /\ ~session_files[2][1].is_complete

\* C29: a conversation driven one message per invocation is, after every
\* message, at the stage and with the completed stages of one manager kept in
\* memory and handed the same messages; a session just resumed stands at the
\* stage its snapshot records
C29_ResumedLikeInMemory ==
    /\ (session_call = "ready" /\ every_message_resumed) =>
           /\ current_stage = reference.current_stage
           /\ Range(completed_stages) = Range(reference.completed_stages)
    /\ session_call = "loaded" =>
           stage_str(current_stage) = snapshot.current_stage

\* ------------------------------------------------------ step parsing claims
\* the step headers of phase p among the lines, and those of any phase
headers_of(lines, p) ==
    {i \in 1..Len(lines) : lines[i].kind = "step" /\ lines[i].n = p}
step_headers(lines) == {i \in 1..Len(lines) : lines[i].kind = "step"}

\* the k-th header of a set of line positions
nth(positions, k) ==
    CHOOSE i \in positions : Cardinality({j \in positions : j <= i}) = k

\* the line after the last one that belongs to the header at i: the next
\* step header of any phase, or the end of the response
end_of_step(lines, i) ==
    IF \E j \in step_headers(lines) : j > i
    THEN CHOOSE j \in step_headers(lines) :
             j > i /\ \A h \in step_headers(lines) : h > i => j <= h
    ELSE Len(lines) + 1

\* the '-' bullets written under the header at i
own_bullets(lines, i) ==
    LET picked == SelectSeq(SubSeq(lines, i + 1, end_of_step(lines, i) - 1),
                            starts_with_dash)
    IN  [k \in 1..Len(picked) |-> picked[k].text]

\* C31: where the response has a step header of phase p, _parse_steps for p
\* returns one step per header p.n, in order, and the details of each are
\* exactly the bullets between its own header and the next step header of
\* any phase
C31_OwnBulletsOnly ==
    (parsed_by("_parse_steps")
        /\ headers_of(raw_response, parsed[1].phase_number) # {}) =>
        LET p == parsed[1].phase_number
            headers == headers_of(raw_response, p)
            steps == parsed[1].outcome.value
        IN  /\ Len(steps) = Cardinality(headers)
            /\ \A k \in 1..Len(steps) :
                   /\ steps[k].number = <<p, raw_response[nth(headers, k)].m>>
                   /\ steps[k].details = own_bullets(raw_response, nth(headers, k))

\* ------------------------------------------ _generate_phase_details claims
\* the response has a step header of the phase: a step parses
parseable(text, p) == headers_of(text, p) # {}

\* C32: once the first response is in, the constrained-format prompt has
\* been sent exactly once if no step of the phase parsed from it and not at
\* all if one did; it is never sent twice; and when its answer holds no step
\* either, the phase returned has the placeholder step and no other
C32_RepromptOnceWhenNoStep ==
    /\ reprompts <= 1
    /\ detail_call \in {"fallback", "returned"} =>
           reprompts = IF parseable(first_response[1], detail_phase)
                       THEN 0 ELSE 1
    /\ (/\ detail_call = "returned"
        /\ response2 # <<>>
        /\ ~parseable(first_response[1], detail_phase)
        /\ ~parseable(response2[1], detail_phase)) =>
           detail_result[1].steps = <<placeholder_step(detail_phase)>>

\* C38: in grouped mode the flat step list of the phase returned is the
\* steps of its task groups, one group after another
C38_FlatStepsAreGroupSteps ==
    (detail_call = "returned" /\ task_grouping = "grouped") =>
        detail_result[1].steps = steps_across(detail_result[1].task_groups)

\* ------------------------------------------------------- completion claims
\* C33: is_complete is true only if all five stages are in the completed set
C33_CompleteOnlyIfAllCompleted ==
    is_complete => \A stage \in Stage : In(stage, completed_stages)

\* ---------------------------------------------------------- get_recent claim
\* the counts get_recent is called with
RecentCounts == 0..(MaxAppends + 1)

\* C34: for every count N >= 0, get_recent(N) returns the last min(N, L) of
\* the L messages of the history, in append order
C34_RecentIsLastN ==
    \A n \in RecentCounts : get_recent(messages, n) = LastN(messages, n)

\* ------------------------------------------- InterviewManager command claims
\* the stages the coordinator holds as completed
completed_set == {stage \in Stage : In(stage, completed_stages)}

\* the first k stages of the canonical order
first_stages(k) == {order[i] : i \in 1..k}

\* C35: whatever messages and commands chat is given, and whether the LLM
\* calls succeed or raise, the completed stages are the first k of the order
\* for some k, and the current stage is the stage after them, HANDOFF when
\* all five are completed
C35_CompletedPrefixAndPointer ==
    \E k \in 0..Len(order) :
        /\ completed_set = first_stages(k)
        /\ current_stage = order[Min(k + 1, Len(order))]

\* C35 witness: a /done whose generation raised and a /back behind it: two
\* stages completed, the pointer on the third, the design never generated
C35_Witness ==
    /\ completed_set = first_stages(2)
    /\ current_stage = DEVPLAN
    /\ design = None
    /\ ~scripted

\* C36: a /done whose LLM call raises leaves the current stage and the
\* completed stages as they were before it
C36_FailedDoneChangesNothing ==
    [][(extraction_raises \/ generation_raises)
           => UNCHANGED <<current_stage, completed_stages>>]_vars

\* the manager as __init__ leaves it, in what /reset is said to clear
fresh_manager ==
    /\ current_stage = INTERVIEW
    /\ completed_stages = <<>>
    /\ stage_outputs = [s \in Stage |-> NoOutput]
    /\ messages = <<>>
    /\ history_outputs = [s \in HistStages |-> NoOutput]
    /\ requirements = EmptyDict
    /\ project_name = None
    /\ design = None
    /\ handoff = <<>>

\* C39: after /reset the manager is as a manager just constructed: the
\* interview stage, nothing completed, no outputs, no messages, no
\* requirements, no project name, design or handoff
C39_ResetLeavesFreshManager ==
    [][reset_command => fresh_manager']_vars

\* ------------------------------------------------- ConcurrencyManager progress
\* unit u holds or has held a slot
acquired(u) == ustate[u] \in {"running", "returned", "raised"}

\* C37: whatever the limit the manager was constructed with, a unit that
\* waits for a slot gets one, and a gather_with_limit that was called
\* returns or raises, provided every started unit finishes
C37_EveryUnitGetsASlot ==
    /\ \A u \in Units : (ustate[u] = "waiting") ~> acquired(u)
    /\ (gather_state = "pending") ~> (gather_state \in {"returned", "raised"})

\* ------------------------------------------------- DesignCorrectionLoop claims
\* what run returned, once it has
returned_result == correction_result[1]

\* the flags and counts of a returned result
result_in_bounds ==
    correction_result # <<>> =>
        /\ returned_result.iterations_used \in 1..MAX_ITERATIONS
        /\ ~(returned_result.requires_human_review
                /\ returned_result.max_iterations_reached)
        /\ (~returned_result.requires_human_review
                /\ ~returned_result.max_iterations_reached) =>
               /\ returned_result.validation.is_valid
               /\ returned_result.review.confidence > CONFIDENCE_THRESHOLD

\* C40: run returns, after no more than MAX_ITERATIONS rounds, a result with
\* 1 <= iterations_used <= 3 in which requires_human_review and
\* max_iterations_reached are not both set and, when neither is set, the
\* validation is valid and the confidence is above the threshold
C40_ReturnsWithinThreeRounds ==
    /\ [](iteration <= MAX_ITERATIONS /\ result_in_bounds)
    /\ <>(correction_result # <<>>)

\* C40 witness: three rounds of corrections and the loop ran out
C40_Witness ==
    /\ correction_result # <<>>
    /\ returned_result.max_iterations_reached
    /\ returned_result.iterations_used = MAX_ITERATIONS
    /\ Len(returned_result.changes_made) >= MAX_ITERATIONS
    /\ ~returned_result.validation.is_valid

====
